---- MODULE Spec2Model ----
(***************************************************************************)
(* A model of the sqlite-mcp tool-dispatch core: the registered tool       *)
(* handler of createServer (src/src/server.ts), the configuration          *)
(* resolution and the entry points that build servers (index.ts and        *)
(* worker.ts, kept in src/README.md from line 295 on), and the client      *)
(* operations the handler calls (src/src/libsql-client.ts).                *)
(***************************************************************************)
EXTENDS Integers, Sequences, FiniteSets, TLC

VARIABLES
    env,        \* process.env: the four SQLITE_* variables
    mode,       \* what runs: "config", "direct", or an entry point "stdio", "http", "worker"; "exited"
    config,     \* the last value getConfig() returned (configuration specification only)
    servers,    \* the server instances createServer() has built, in creation order
    transports, \* startHttp's `transports` mapping: session id -> index of its server
    calls,      \* the invocations of the registered tool handler, one per slot
    last,       \* startHttp: the last request to /mcp and the response it got
    db,         \* the database behind one client: its engine, its committed rows
    ops         \* the client operations called on that one client, one per slot

vars == <<env, mode, config, servers, transports, calls, last, db, ops>>

(***************************************************************************)
(* JavaScript values.  A JSON-like value is a tagged record; an object is  *)
(* a sequence of <<key, value>> pairs in insertion order.                  *)
(***************************************************************************)
Undefined == "<undefined>"

JNum(n)  == [t |-> "num", v |-> n]
JStr(s)  == [t |-> "str", v |-> s]
JBool(b) == [t |-> "bool", v |-> b]
JBig(n)  == [t |-> "bigint", v |-> n]
JUndef   == [t |-> "undef", v |-> 0]
JArr(s)  == [t |-> "arr", v |-> s]
JObj(s)  == [t |-> "obj", v |-> s]

\* `if (x)` on a string-or-undefined value: undefined and "" are falsy.
Truthy(x) == x # Undefined /\ x # ""

RECURSIVE Spaces(_)
Spaces(n) == IF n = 0 THEN "" ELSE " " \o Spaces(n - 1)

RECURSIVE JoinWith(_, _)
JoinWith(parts, sep) ==
    IF Len(parts) = 0 THEN ""
    ELSE IF Len(parts) = 1 THEN parts[1]
    ELSE parts[1] \o sep \o JoinWith(Tail(parts), sep)

Quote(s) == "\"" \o s \o "\""

\* JSON.stringify meets a BigInt somewhere in the value: it throws a TypeError.
RECURSIVE HasBigInt(_)
HasBigInt(x) ==
    CASE x.t = "bigint" -> TRUE
      [] x.t = "arr" -> \E i \in 1..Len(x.v) : HasBigInt(x.v[i])
      [] x.t = "obj" -> \E i \in 1..Len(x.v) : HasBigInt(x.v[i][2])
      [] OTHER -> FALSE

DefinedProps(ps) == SelectSeq(ps, LAMBDA p : p[2].t # "undef")

\* The text JSON.stringify(x, null, IndentWidth) produces for a value without BigInt.
IndentWidth == 2

RECURSIVE Serialize(_, _)
Serialize(x, ind) ==
    CASE x.t = "num" -> ToString(x.v)
      [] x.t = "str" -> Quote(x.v)
      [] x.t = "bool" -> (IF x.v THEN "true" ELSE "false")
      [] x.t = "undef" -> "null"
      [] x.t = "arr" ->
            IF Len(x.v) = 0 THEN "[]"
            ELSE "[\n"
                 \o JoinWith([i \in 1..Len(x.v) |->
                        Spaces(ind + IndentWidth) \o Serialize(x.v[i], ind + IndentWidth)],
                      ",\n")
                 \o "\n" \o Spaces(ind) \o "]"
      [] x.t = "obj" ->
            LET ps == DefinedProps(x.v) IN
            IF Len(ps) = 0 THEN "{}"
            ELSE "{\n"
                 \o JoinWith([i \in 1..Len(ps) |->
                        Spaces(ind + IndentWidth) \o Quote(ps[i][1]) \o ": "
                          \o Serialize(ps[i][2], ind + IndentWidth)],
                      ",\n")
                 \o "\n" \o Spaces(ind) \o "}"

BigIntMessage == "Do not know how to serialize a BigInt"

\* JSON.stringify(result, null, 2): the text, or the TypeError it throws.
JSONstringify(x) ==
    IF HasBigInt(x)
    THEN [threw |-> TRUE, text |-> BigIntMessage]
    ELSE [threw |-> FALSE, text |-> Serialize(x, 0)]

(***************************************************************************)
(* Configuration resolution (index.ts).                                    *)
(***************************************************************************)
NoConfig == [kind |-> "null"]

EnvOf(url, tok, path, tmo) ==
    [SQLITE_DB_URL |-> url, SQLITE_AUTH_TOKEN |-> tok,
     SQLITE_DB_PATH |-> path, SQLITE_TIMEOUT |-> tmo]

JNaN == [t |-> "nan", v |-> 0]

\* parseInt(s, 10) on the timeout strings the model uses: the leading
\* decimal digits as a number, NaN when there are none.
parseInt(s) ==
    CASE s = "250" -> JNum(250)
      [] s = "5000" -> JNum(5000)
      [] OTHER -> JNaN

\* Faulty variant: the local path is tested before the remote URL.
getConfigPathFirst(e) ==
    IF Truthy(e.SQLITE_DB_PATH)
    THEN [dbPath |-> e.SQLITE_DB_PATH,
          timeout |-> IF Truthy(e.SQLITE_TIMEOUT) THEN parseInt(e.SQLITE_TIMEOUT) ELSE JUndef]
    ELSE IF Truthy(e.SQLITE_DB_URL)
    THEN [url |-> e.SQLITE_DB_URL, authToken |-> e.SQLITE_AUTH_TOKEN]
    ELSE NoConfig

getConfig(e) ==
    IF Truthy(e.SQLITE_DB_URL)
    THEN [url |-> e.SQLITE_DB_URL, authToken |-> e.SQLITE_AUTH_TOKEN]
    ELSE IF Truthy(e.SQLITE_DB_PATH)
    THEN [dbPath |-> e.SQLITE_DB_PATH,
          timeout |-> IF Truthy(e.SQLITE_TIMEOUT) THEN parseInt(e.SQLITE_TIMEOUT) ELSE JUndef]
    ELSE NoConfig

(***************************************************************************)
(* The tool catalog (tools.ts) and the dispatch of handleToolCall          *)
(* (server.ts).                                                            *)
(***************************************************************************)
TOOLS ==
    << "sqlite_query", "sqlite_execute", "sqlite_run_script",
       "sqlite_list_tables", "sqlite_describe_table", "sqlite_list_indexes",
       "sqlite_list_foreign_keys",
       "sqlite_create_table", "sqlite_alter_table", "sqlite_drop_table",
       "sqlite_create_index", "sqlite_drop_index",
       "sqlite_get_info", "sqlite_vacuum", "sqlite_integrity_check" >>

ToolNames == {TOOLS[i] : i \in 1..Len(TOOLS)}

\* The catalog itself (tools.ts 20-463): every definition with its name,
\* description, annotations and inputSchema.  An em dash of a description is
\* written "--".
Catalog ==
  <<
    [name |-> "sqlite_query",
     description |->
       "Execute a SELECT query on the SQLite database and return rows as a JSON array. Use this for reading data -- supports any valid SELECT statement with optional parameter binding for safe queries.",
     annotations |->
       JObj(<<
         <<"title", JStr("Query Database")>>,
         <<"readOnlyHint", JBool(TRUE)>>,
         <<"destructiveHint", JBool(FALSE)>>,
         <<"idempotentHint", JBool(TRUE)>>,
         <<"openWorldHint", JBool(FALSE)>> >>),
     inputSchema |->
       JObj(<<
         <<"type", JStr("object")>>,
         <<"properties", JObj(<<
           <<"sql", JObj(<<
             <<"type", JStr("string")>>,
             <<"description", JStr("SQL SELECT query to execute (e.g., \"SELECT * FROM users WHERE age > ?\")")>> >>)>>,
           <<"params", JObj(<<
             <<"type", JStr("array")>>,
             <<"items", JObj(<<>>)>>,
             <<"description", JStr("Array of bind parameter values for ? placeholders (e.g., [25])")>> >>)>> >>)>>,
         <<"required", JArr(<<JStr("sql")>>)>> >>)],
    [name |-> "sqlite_execute",
     description |->
       "Execute a write statement (INSERT, UPDATE, DELETE, CREATE, ALTER, DROP) on the SQLite database. Returns the number of rows changed and the last inserted row ID. Use parameter binding for safe writes.",
     annotations |->
       JObj(<<
         <<"title", JStr("Execute Statement")>>,
         <<"readOnlyHint", JBool(FALSE)>>,
         <<"destructiveHint", JBool(FALSE)>>,
         <<"idempotentHint", JBool(FALSE)>>,
         <<"openWorldHint", JBool(FALSE)>> >>),
     inputSchema |->
       JObj(<<
         <<"type", JStr("object")>>,
         <<"properties", JObj(<<
           <<"sql", JObj(<<
             <<"type", JStr("string")>>,
             <<"description", JStr("SQL write statement to execute (e.g., \"INSERT INTO users (name, age) VALUES (?, ?)\")")>> >>)>>,
           <<"params", JObj(<<
             <<"type", JStr("array")>>,
             <<"items", JObj(<<>>)>>,
             <<"description", JStr("Array of bind parameter values for ? placeholders (e.g., [\"Alice\", 30])")>> >>)>> >>)>>,
         <<"required", JArr(<<JStr("sql")>>)>> >>)],
    [name |-> "sqlite_run_script",
     description |->
       "Execute multiple SQL statements in a single transaction. All statements succeed or all fail (atomic). Separate statements with semicolons. Use for migrations, seed data, or batch operations.",
     annotations |->
       JObj(<<
         <<"title", JStr("Run SQL Script")>>,
         <<"readOnlyHint", JBool(FALSE)>>,
         <<"destructiveHint", JBool(FALSE)>>,
         <<"idempotentHint", JBool(FALSE)>>,
         <<"openWorldHint", JBool(FALSE)>> >>),
     inputSchema |->
       JObj(<<
         <<"type", JStr("object")>>,
         <<"properties", JObj(<<
           <<"sql", JObj(<<
             <<"type", JStr("string")>>,
             <<"description", JStr("Multiple SQL statements separated by semicolons (e.g., \"CREATE TABLE t1 (id INTEGER); INSERT INTO t1 VALUES (1);\")")>> >>)>> >>)>>,
         <<"required", JArr(<<JStr("sql")>>)>> >>)],
    [name |-> "sqlite_list_tables",
     description |->
       "List all tables and views in the database with their row counts. Use this as the first step to explore an unfamiliar database. Returns table name, type (table or view), and row count.",
     annotations |->
       JObj(<<
         <<"title", JStr("List Tables")>>,
         <<"readOnlyHint", JBool(TRUE)>>,
         <<"destructiveHint", JBool(FALSE)>>,
         <<"idempotentHint", JBool(TRUE)>>,
         <<"openWorldHint", JBool(FALSE)>> >>),
     inputSchema |->
       JObj(<<
         <<"type", JStr("object")>>,
         <<"properties", JObj(<<>>)>> >>)],
    [name |-> "sqlite_describe_table",
     description |->
       "Get the column schema of a table -- column names, data types, NOT NULL constraints, default values, and primary key flags. Also returns the CREATE TABLE SQL statement.",
     annotations |->
       JObj(<<
         <<"title", JStr("Describe Table")>>,
         <<"readOnlyHint", JBool(TRUE)>>,
         <<"destructiveHint", JBool(FALSE)>>,
         <<"idempotentHint", JBool(TRUE)>>,
         <<"openWorldHint", JBool(FALSE)>> >>),
     inputSchema |->
       JObj(<<
         <<"type", JStr("object")>>,
         <<"properties", JObj(<<
           <<"table", JObj(<<
             <<"type", JStr("string")>>,
             <<"description", JStr("Table name to describe (e.g., \"users\")")>> >>)>> >>)>>,
         <<"required", JArr(<<JStr("table")>>)>> >>)],
    [name |-> "sqlite_list_indexes",
     description |->
       "List all indexes on a table -- index name, uniqueness, origin (manual or auto-created), and whether it is a partial index.",
     annotations |->
       JObj(<<
         <<"title", JStr("List Indexes")>>,
         <<"readOnlyHint", JBool(TRUE)>>,
         <<"destructiveHint", JBool(FALSE)>>,
         <<"idempotentHint", JBool(TRUE)>>,
         <<"openWorldHint", JBool(FALSE)>> >>),
     inputSchema |->
       JObj(<<
         <<"type", JStr("object")>>,
         <<"properties", JObj(<<
           <<"table", JObj(<<
             <<"type", JStr("string")>>,
             <<"description", JStr("Table name to list indexes for (e.g., \"users\")")>> >>)>> >>)>>,
         <<"required", JArr(<<JStr("table")>>)>> >>)],
    [name |-> "sqlite_list_foreign_keys",
     description |->
       "List foreign key constraints on a table -- referenced table, local and remote columns, ON UPDATE and ON DELETE actions.",
     annotations |->
       JObj(<<
         <<"title", JStr("List Foreign Keys")>>,
         <<"readOnlyHint", JBool(TRUE)>>,
         <<"destructiveHint", JBool(FALSE)>>,
         <<"idempotentHint", JBool(TRUE)>>,
         <<"openWorldHint", JBool(FALSE)>> >>),
     inputSchema |->
       JObj(<<
         <<"type", JStr("object")>>,
         <<"properties", JObj(<<
           <<"table", JObj(<<
             <<"type", JStr("string")>>,
             <<"description", JStr("Table name to list foreign keys for (e.g., \"orders\")")>> >>)>> >>)>>,
         <<"required", JArr(<<JStr("table")>>)>> >>)],
    [name |-> "sqlite_create_table",
     description |->
       "Create a new table with column definitions. Each column has a name, type, and optional constraints (PRIMARY KEY, NOT NULL, UNIQUE, DEFAULT). Use ifNotExists to skip if the table already exists.",
     annotations |->
       JObj(<<
         <<"title", JStr("Create Table")>>,
         <<"readOnlyHint", JBool(FALSE)>>,
         <<"destructiveHint", JBool(FALSE)>>,
         <<"idempotentHint", JBool(FALSE)>>,
         <<"openWorldHint", JBool(FALSE)>> >>),
     inputSchema |->
       JObj(<<
         <<"type", JStr("object")>>,
         <<"properties", JObj(<<
           <<"table", JObj(<<
             <<"type", JStr("string")>>,
             <<"description", JStr("Name for the new table (e.g., \"users\")")>> >>)>>,
           <<"columns", JObj(<<
             <<"type", JStr("array")>>,
             <<"items", JObj(<<
               <<"type", JStr("object")>>,
               <<"properties", JObj(<<
                 <<"name", JObj(<<
                   <<"type", JStr("string")>>,
                   <<"description", JStr("Column name (e.g., \"id\", \"email\")")>> >>)>>,
                 <<"type", JObj(<<
                   <<"type", JStr("string")>>,
                   <<"description", JStr("Column data type (e.g., \"INTEGER\", \"TEXT\", \"REAL\", \"BLOB\")")>> >>)>>,
                 <<"primaryKey", JObj(<<
                   <<"type", JStr("boolean")>>,
                   <<"description", JStr("Set as PRIMARY KEY (default: false)")>> >>)>>,
                 <<"notNull", JObj(<<
                   <<"type", JStr("boolean")>>,
                   <<"description", JStr("Add NOT NULL constraint (default: false)")>> >>)>>,
                 <<"default", JObj(<<
                   <<"description", JStr("Default value for the column (string or number)")>> >>)>>,
                 <<"unique", JObj(<<
                   <<"type", JStr("boolean")>>,
                   <<"description", JStr("Add UNIQUE constraint (default: false)")>> >>)>> >>)>>,
               <<"required", JArr(<<JStr("name"), JStr("type")>>)>> >>)>>,
             <<"description", JStr("Array of column definitions with name, type, and optional constraints")>> >>)>>,
           <<"ifNotExists", JObj(<<
             <<"type", JStr("boolean")>>,
             <<"description", JStr("Skip creation if table already exists (default: false)")>> >>)>> >>)>>,
         <<"required", JArr(<<JStr("table"), JStr("columns")>>)>> >>)],
    [name |-> "sqlite_alter_table",
     description |->
       "Alter an existing table -- add a new column, rename a column, or rename the table. SQLite does not support dropping columns via ALTER TABLE.",
     annotations |->
       JObj(<<
         <<"title", JStr("Alter Table")>>,
         <<"readOnlyHint", JBool(FALSE)>>,
         <<"destructiveHint", JBool(FALSE)>>,
         <<"idempotentHint", JBool(FALSE)>>,
         <<"openWorldHint", JBool(FALSE)>> >>),
     inputSchema |->
       JObj(<<
         <<"type", JStr("object")>>,
         <<"properties", JObj(<<
           <<"table", JObj(<<
             <<"type", JStr("string")>>,
             <<"description", JStr("Current table name to alter (e.g., \"users\")")>> >>)>>,
           <<"action", JObj(<<
             <<"type", JStr("string")>>,
             <<"enum", JArr(<<JStr("add_column"), JStr("rename_column"), JStr("rename_table")>>)>>,
             <<"description", JStr("Alter action: \"add_column\" to add a new column, \"rename_column\" to rename a column, \"rename_table\" to rename the table")>> >>)>>,
           <<"column", JObj(<<
             <<"type", JStr("string")>>,
             <<"description", JStr("New column name (for add_column action)")>> >>)>>,
           <<"type", JObj(<<
             <<"type", JStr("string")>>,
             <<"description", JStr("Column data type (for add_column action, e.g., \"TEXT\", \"INTEGER\")")>> >>)>>,
           <<"notNull", JObj(<<
             <<"type", JStr("boolean")>>,
             <<"description", JStr("Add NOT NULL constraint to new column (for add_column, default: false)")>> >>)>>,
           <<"default", JObj(<<
             <<"description", JStr("Default value for new column (for add_column)")>> >>)>>,
           <<"oldName", JObj(<<
             <<"type", JStr("string")>>,
             <<"description", JStr("Current column name to rename (for rename_column action)")>> >>)>>,
           <<"newName", JObj(<<
             <<"type", JStr("string")>>,
             <<"description", JStr("New column name (for rename_column action)")>> >>)>>,
           <<"newTableName", JObj(<<
             <<"type", JStr("string")>>,
             <<"description", JStr("New table name (for rename_table action)")>> >>)>> >>)>>,
         <<"required", JArr(<<JStr("table"), JStr("action")>>)>> >>)],
    [name |-> "sqlite_drop_table",
     description |->
       "Drop (delete) a table and all its data permanently. This action is irreversible. Use ifExists to avoid errors if the table does not exist.",
     annotations |->
       JObj(<<
         <<"title", JStr("Drop Table")>>,
         <<"readOnlyHint", JBool(FALSE)>>,
         <<"destructiveHint", JBool(TRUE)>>,
         <<"idempotentHint", JBool(FALSE)>>,
         <<"openWorldHint", JBool(FALSE)>> >>),
     inputSchema |->
       JObj(<<
         <<"type", JStr("object")>>,
         <<"properties", JObj(<<
           <<"table", JObj(<<
             <<"type", JStr("string")>>,
             <<"description", JStr("Table name to drop (e.g., \"old_users\")")>> >>)>>,
           <<"ifExists", JObj(<<
             <<"type", JStr("boolean")>>,
             <<"description", JStr("Skip if table does not exist instead of throwing error (default: false)")>> >>)>> >>)>>,
         <<"required", JArr(<<JStr("table")>>)>> >>)],
    [name |-> "sqlite_create_index",
     description |->
       "Create an index on one or more columns to speed up queries. Optionally create a UNIQUE index to enforce uniqueness. Index name is auto-generated if not provided.",
     annotations |->
       JObj(<<
         <<"title", JStr("Create Index")>>,
         <<"readOnlyHint", JBool(FALSE)>>,
         <<"destructiveHint", JBool(FALSE)>>,
         <<"idempotentHint", JBool(FALSE)>>,
         <<"openWorldHint", JBool(FALSE)>> >>),
     inputSchema |->
       JObj(<<
         <<"type", JStr("object")>>,
         <<"properties", JObj(<<
           <<"table", JObj(<<
             <<"type", JStr("string")>>,
             <<"description", JStr("Table to create the index on (e.g., \"users\")")>> >>)>>,
           <<"columns", JObj(<<
             <<"type", JStr("array")>>,
             <<"items", JObj(<<
               <<"type", JStr("string")>> >>)>>,
             <<"description", JStr("Array of column names to index (e.g., [\"email\"] or [\"last_name\", \"first_name\"])")>> >>)>>,
           <<"indexName", JObj(<<
             <<"type", JStr("string")>>,
             <<"description", JStr("Custom index name (auto-generated as idx_table_col1_col2 if omitted)")>> >>)>>,
           <<"unique", JObj(<<
             <<"type", JStr("boolean")>>,
             <<"description", JStr("Create a UNIQUE index to enforce uniqueness (default: false)")>> >>)>>,
           <<"ifNotExists", JObj(<<
             <<"type", JStr("boolean")>>,
             <<"description", JStr("Skip if index already exists (default: false)")>> >>)>> >>)>>,
         <<"required", JArr(<<JStr("table"), JStr("columns")>>)>> >>)],
    [name |-> "sqlite_drop_index",
     description |->
       "Drop (delete) an index by name. Does not affect the table data, only removes the index. Use ifExists to avoid errors if the index does not exist.",
     annotations |->
       JObj(<<
         <<"title", JStr("Drop Index")>>,
         <<"readOnlyHint", JBool(FALSE)>>,
         <<"destructiveHint", JBool(TRUE)>>,
         <<"idempotentHint", JBool(FALSE)>>,
         <<"openWorldHint", JBool(FALSE)>> >>),
     inputSchema |->
       JObj(<<
         <<"type", JStr("object")>>,
         <<"properties", JObj(<<
           <<"indexName", JObj(<<
             <<"type", JStr("string")>>,
             <<"description", JStr("Name of the index to drop (e.g., \"idx_users_email\")")>> >>)>>,
           <<"ifExists", JObj(<<
             <<"type", JStr("boolean")>>,
             <<"description", JStr("Skip if index does not exist instead of throwing error (default: false)")>> >>)>> >>)>>,
         <<"required", JArr(<<JStr("indexName")>>)>> >>)],
    [name |-> "sqlite_get_info",
     description |->
       "Get database metadata -- file path, file size, table count, page count, page size, journal mode, WAL status, encoding, and SQLite version. Use this to understand the database state.",
     annotations |->
       JObj(<<
         <<"title", JStr("Get Database Info")>>,
         <<"readOnlyHint", JBool(TRUE)>>,
         <<"destructiveHint", JBool(FALSE)>>,
         <<"idempotentHint", JBool(TRUE)>>,
         <<"openWorldHint", JBool(FALSE)>> >>),
     inputSchema |->
       JObj(<<
         <<"type", JStr("object")>>,
         <<"properties", JObj(<<>>)>> >>)],
    [name |-> "sqlite_vacuum",
     description |->
       "Optimize and compact the database file by rebuilding it. Reclaims space from deleted rows and defragments the file. Returns file size before and after. May take time on large databases.",
     annotations |->
       JObj(<<
         <<"title", JStr("Vacuum Database")>>,
         <<"readOnlyHint", JBool(FALSE)>>,
         <<"destructiveHint", JBool(FALSE)>>,
         <<"idempotentHint", JBool(TRUE)>>,
         <<"openWorldHint", JBool(FALSE)>> >>),
     inputSchema |->
       JObj(<<
         <<"type", JStr("object")>>,
         <<"properties", JObj(<<>>)>> >>)],
    [name |-> "sqlite_integrity_check",
     description |->
       "Run PRAGMA integrity_check to verify the database is not corrupted. Returns \"ok\" if the database is healthy, or a list of issues found. Use after crashes or suspicious behavior.",
     annotations |->
       JObj(<<
         <<"title", JStr("Integrity Check")>>,
         <<"readOnlyHint", JBool(TRUE)>>,
         <<"destructiveHint", JBool(FALSE)>>,
         <<"idempotentHint", JBool(TRUE)>>,
         <<"openWorldHint", JBool(FALSE)>> >>),
     inputSchema |->
       JObj(<<
         <<"type", JStr("object")>>,
         <<"properties", JObj(<<>>)>> >>)]
  >>

\* Faulty variant: the inputSchema is reduced to its type.
ListToolsResponseSimplified(catalog) ==
    [i \in 1..Len(catalog) |->
        [name |-> catalog[i].name,
         description |-> catalog[i].description,
         inputSchema |-> JObj(<< <<"type", JStr("object")>> >>),
         annotations |-> catalog[i].annotations]]

\* The tools/list handler (server.ts 288-295): TOOLS.map(...).
ListToolsResponse(catalog) ==
    [i \in 1..Len(catalog) |->
        [name |-> catalog[i].name,
         description |-> catalog[i].description,
         inputSchema |-> catalog[i].inputSchema,
         annotations |-> catalog[i].annotations]]

\* args.<k> of a tool call's argument bag: a missing property reads as undefined.
Arg(args, k) == IF k \in DOMAIN args THEN JStr(args[k]) ELSE JUndef

\* Faulty variant: the switch lacks one case of the database management group.
ClientOpMissingCase(toolName) ==
    CASE toolName = "sqlite_query" -> "query"
      [] toolName = "sqlite_execute" -> "execute"
      [] toolName = "sqlite_run_script" -> "runScript"
      [] toolName = "sqlite_list_tables" -> "listTables"
      [] toolName = "sqlite_describe_table" -> "describeTable"
      [] toolName = "sqlite_list_indexes" -> "listIndexes"
      [] toolName = "sqlite_list_foreign_keys" -> "listForeignKeys"
      [] toolName = "sqlite_create_table" -> "createTable"
      [] toolName = "sqlite_alter_table" -> "alterTable"
      [] toolName = "sqlite_drop_table" -> "dropTable"
      [] toolName = "sqlite_create_index" -> "createIndex"
      [] toolName = "sqlite_drop_index" -> "dropIndex"
      [] toolName = "sqlite_get_info" -> "getInfo"
      [] toolName = "sqlite_integrity_check" -> "integrityCheck"
      [] OTHER -> "unknown"

\* The client operation a tool name designates: the switch of handleToolCall.
ClientOp(toolName) ==
    CASE toolName = "sqlite_query" -> "query"
      [] toolName = "sqlite_execute" -> "execute"
      [] toolName = "sqlite_run_script" -> "runScript"
      [] toolName = "sqlite_list_tables" -> "listTables"
      [] toolName = "sqlite_describe_table" -> "describeTable"
      [] toolName = "sqlite_list_indexes" -> "listIndexes"
      [] toolName = "sqlite_list_foreign_keys" -> "listForeignKeys"
      [] toolName = "sqlite_create_table" -> "createTable"
      [] toolName = "sqlite_alter_table" -> "alterTable"
      [] toolName = "sqlite_drop_table" -> "dropTable"
      [] toolName = "sqlite_create_index" -> "createIndex"
      [] toolName = "sqlite_drop_index" -> "dropIndex"
      [] toolName = "sqlite_get_info" -> "getInfo"
      [] toolName = "sqlite_vacuum" -> "vacuum"
      [] toolName = "sqlite_integrity_check" -> "integrityCheck"
      [] OTHER -> "unknown"

\* What handleToolCall returns once the client operation has resolved with `value`.
ToolResult(toolName, args, value) ==
    CASE toolName = "sqlite_create_table" ->
            JObj(<< <<"success", JBool(TRUE)>>, <<"table", Arg(args, "table")>> >>)
      [] toolName = "sqlite_alter_table" ->
            JObj(<< <<"success", JBool(TRUE)>>, <<"table", Arg(args, "table")>>,
                    <<"action", Arg(args, "action")>> >>)
      [] toolName = "sqlite_drop_table" ->
            JObj(<< <<"success", JBool(TRUE)>>, <<"table", Arg(args, "table")>>,
                    <<"dropped", JBool(TRUE)>> >>)
      [] toolName = "sqlite_create_index" ->
            JObj(<< <<"success", JBool(TRUE)>>, <<"table", Arg(args, "table")>>,
                    <<"indexName",
                      IF "indexName" \in DOMAIN args /\ Truthy(args.indexName)
                      THEN JStr(args.indexName)
                      ELSE JStr("idx_" \o args.table \o "_" \o JoinWith(args.columns, "_"))>> >>)
      [] toolName = "sqlite_drop_index" ->
            JObj(<< <<"success", JBool(TRUE)>>, <<"indexName", Arg(args, "indexName")>>,
                    <<"dropped", JBool(TRUE)>> >>)
      [] OTHER -> value

(***************************************************************************)
(* The client operations as the handler sees them (libsql-client.ts): each *)
(* either resolves with a value or rejects with a message.  The engine is  *)
(* an external collaborator, so its answers are inputs.                    *)
(***************************************************************************)
KnownAlterActions == {"add_column", "rename_column", "rename_table"}

EngineError == "SQLITE_ERROR: engine failure"

Returned(v) == [threw |-> FALSE, value |-> v, message |-> ""]
Threw(m)    == [threw |-> TRUE, value |-> JUndef, message |-> m]

\* The result sets the engine may answer a write statement with: the
\* last-inserted-row identifier is a bigint, or absent.
ExecuteResultSets ==
    { [rowsAffected |-> 1, lastInsertRowid |-> JBig(1)],
      [rowsAffected |-> 0, lastInsertRowid |-> JUndef] }

\* LibSqlClient.execute: { changes, lastInsertRowid: rs.lastInsertRowid ?? 0 }.
LibSqlExecute(rs) ==
    JObj(<< <<"changes", JNum(rs.rowsAffected)>>,
            <<"lastInsertRowid",
              IF rs.lastInsertRowid = JUndef THEN JNum(0) ELSE rs.lastInsertRowid>> >>)

\* A representative value of each operation that has one way to succeed.
SampleValue(op) ==
    CASE op = "query" ->
            JObj(<< <<"columns", JArr(<<JStr("id")>>)>>,
                    <<"rows", JArr(<<JObj(<< <<"id", JNum(1)>> >>)>>)>>,
                    <<"rowCount", JNum(1)>> >>)
      [] op = "runScript" -> JObj(<< <<"statementsRun", JNum(2)>> >>)
      [] op = "listTables" ->
            JArr(<<JObj(<< <<"name", JStr("t")>>, <<"type", JStr("table")>>,
                           <<"rowCount", JNum(3)>> >>)>>)
      [] op = "describeTable" ->
            JObj(<< <<"columns", JArr(<<>>)>>, <<"sql", JStr("")>> >>)
      [] op \in {"listIndexes", "listForeignKeys"} -> JArr(<<>>)
      [] op = "getInfo" ->
            JObj(<< <<"filePath", JStr("libsql://a")>>, <<"tableCount", JNum(1)>>,
                    <<"walMode", JBool(FALSE)>> >>)
      [] op = "vacuum" ->
            JObj(<< <<"sizeBefore", JNum(8)>>, <<"sizeAfter", JNum(4)>> >>)
      [] op = "integrityCheck" ->
            JObj(<< <<"ok", JBool(TRUE)>>, <<"results", JArr(<<JStr("ok")>>)>> >>)
      [] OTHER -> JUndef   \* createTable, alterTable, dropTable, createIndex, dropIndex: void

\* Every way the operation `op` can end when called with `args`.
ClientOutcomes(op, args) ==
    IF op = "alterTable" /\ args.action \notin KnownAlterActions
    THEN {Threw("Unknown alter action: " \o args.action)}
    ELSE {Threw(EngineError)}
         \cup (IF op = "execute"
               THEN {Returned(LibSqlExecute(rs)) : rs \in ExecuteResultSets}
               ELSE {Returned(SampleValue(op))})

\* handleToolCall as a whole: the outcome of the client operation, carried
\* through the switch; a name outside the catalog throws before any operation.
handleToolCall(toolName, args, outcome) ==
    IF ClientOp(toolName) = "unknown" THEN Threw("Unknown tool: " \o toolName)
    ELSE IF outcome.threw THEN outcome
    ELSE Returned(ToolResult(toolName, args, outcome.value))

\* The argument bags the model calls each tool with.
ToolArgs(toolName) ==
    CASE toolName \in {"sqlite_query", "sqlite_execute", "sqlite_run_script"} ->
            {[sql |-> "SELECT 1"]}
      [] toolName = "sqlite_alter_table" ->
            {[table |-> "t", action |-> a] : a \in {"rename_table", "drop_column"}}
      [] toolName = "sqlite_create_index" ->
            {[table |-> "t", columns |-> <<"a", "b">>]}
      [] toolName = "sqlite_drop_index" -> {[indexName |-> "i"]}
      [] toolName \in {"sqlite_get_info", "sqlite_vacuum", "sqlite_integrity_check",
                       "sqlite_list_tables"} -> {[none |-> ""]}
      [] OTHER -> {[table |-> "t"]}

(***************************************************************************)
(* createServer (server.ts): a server instance and its registered tool     *)
(* handler.  `client` is the closure variable of line 118: 0 is null,      *)
(* k > 0 is the k-th client this instance's factory produced.              *)
(***************************************************************************)
NoOptions == [kind |-> "undefined"]

\* `config ?? undefined`, the argument index.ts passes to createServer.
OptionsFromConfig(cfg) == IF cfg = NoConfig THEN NoOptions ELSE cfg

\* The options worker.ts passes: a factory of a LibSqlClient for dbUrl.
WorkerOptions(dbUrl, authToken) ==
    [clientFactory |-> [impl |-> "LibSqlClient", url |-> dbUrl,
                        authToken |-> IF Truthy(authToken) THEN authToken ELSE Undefined],
     connectionType |-> "remote",
     connectionTarget |-> dbUrl]

\* Faulty variant: the handler does not test for a missing factory.
HasFactoryUnchecked(opts) == TRUE

\* opts?.clientFactory is set.
HasFactory(opts) == "clientFactory" \in DOMAIN opts

createServer(opts, origin) ==
    [opts |-> opts, origin |-> origin, client |-> 0, made |-> 0, closed |-> {},
     open |-> TRUE]

Envelope(text, isError) ==
    [content |-> <<[type |-> "text", text |-> text]>>, isError |-> isError]

NoEnvelope == [content |-> <<>>, isError |-> FALSE]

NotConfiguredText ==
    "Error: Database not configured. Set SQLITE_DB_URL (remote) or SQLITE_DB_PATH (local)."

ConnectErrorText(message) == "Error connecting to database: " \o message

FactoryError == "connect ECONNREFUSED"

IdleCall ==
    [pc |-> "idle", server |-> 0, tool |-> "", args |-> [none |-> ""], client |-> 0,
     outcome |-> "none", value |-> JUndef, envelope |-> NoEnvelope]

\* Faulty variant: the call of handleToolCall is not wrapped in try/catch, so a
\* failure leaves the handler without an envelope.
ResultEnvelopeUncaught(toolName, args, outcome) ==
    LET r == handleToolCall(toolName, args, outcome) IN
    IF r.threw THEN NoEnvelope
    ELSE LET js == JSONstringify(r.value) IN
         IF js.threw THEN NoEnvelope
         ELSE Envelope(js.text, FALSE)

\* Lines 158-179: the envelope the handler returns once the client operation
\* has ended with `outcome`.
ResultEnvelope(toolName, args, outcome) ==
    LET r == handleToolCall(toolName, args, outcome) IN
    IF r.threw THEN Envelope("Error: " \o r.message, TRUE)
    ELSE LET js == JSONstringify(r.value) IN
         IF js.threw THEN Envelope("Error: " \o js.text, TRUE)
         ELSE Envelope(js.text, FALSE)

\* Lines 129-159 up to the first await: the not-configured answer, the
\* factory call, or the client operation on the memoized client.
HandlerStart(c, s, toolName, args) ==
    /\ calls[c].pc = "idle"
    /\ s \in 1..Len(servers)
    /\ servers[s].open
    /\ LET new == [IdleCall EXCEPT !.server = s, !.tool = toolName, !.args = args] IN
       calls' = [calls EXCEPT ![c] =
          IF ~HasFactory(servers[s].opts)
          THEN [new EXCEPT !.pc = "done", !.envelope = Envelope(NotConfiguredText, TRUE)]
          ELSE IF servers[s].client = 0
          THEN [new EXCEPT !.pc = "awaitFactory"]
          ELSE [new EXCEPT !.pc = "awaitOp", !.client = servers[s].client]]

\* Line 144, the factory's promise resolves: the new client is assigned to
\* `client` and handleToolCall is entered with it.
FactoryResolve(c) ==
    /\ calls[c].pc = "awaitFactory"
    /\ LET s == calls[c].server
           k == servers[s].made + 1 IN
       /\ servers' = [servers EXCEPT ![s].made = k, ![s].client = k]
       /\ calls' = [calls EXCEPT ![c].pc = "awaitOp", ![c].client = k]
    /\ UNCHANGED <<env, mode, config, transports, last, db, ops>>

\* Faulty variant: the promise is assigned to `client` before it is awaited, so a
\* rejected resolution stays memoized.
FactoryRejectMemoized(c) ==
    /\ calls[c].pc = "awaitFactory"
    /\ calls' = [calls EXCEPT ![c].pc = "done",
                                ![c].outcome = "factoryRejected",
                                ![c].envelope = Envelope(ConnectErrorText(FactoryError), TRUE)]
    /\ servers' = [servers EXCEPT ![calls[c].server].made = @ + 1,
                                  ![calls[c].server].client = servers[calls[c].server].made + 1]
    /\ UNCHANGED <<env, mode, config, transports, last, db, ops>>

\* Lines 145-155, the factory's promise rejects.
FactoryReject(c) ==
    /\ calls[c].pc = "awaitFactory"
    /\ calls' = [calls EXCEPT ![c].pc = "done",
                                ![c].outcome = "factoryRejected",
                                ![c].envelope = Envelope(ConnectErrorText(FactoryError), TRUE)]
    /\ UNCHANGED <<env, mode, config, servers, transports, last, db, ops>>

\* Lines 158-179, the client operation ends: `outcome` records how, `value`
\* what handleToolCall resolved with.
OperationEnds(c) ==
    /\ calls[c].pc = "awaitOp"
    /\ \E outcome \in ClientOutcomes(ClientOp(calls[c].tool), calls[c].args) :
          calls' = [calls EXCEPT
             ![c].pc = "done",
             ![c].outcome = IF outcome.threw THEN "threw" ELSE "returned",
             ![c].value = handleToolCall(calls[c].tool, calls[c].args, outcome).value,
             ![c].envelope = ResultEnvelope(calls[c].tool, calls[c].args, outcome)]
    /\ UNCHANGED <<env, mode, config, servers, transports, last, db, ops>>

\* The returned envelope is sent and the invocation is over.
Respond(c) ==
    /\ calls[c].pc = "done"
    /\ calls' = [calls EXCEPT ![c] = IdleCall]
    /\ UNCHANGED <<env, mode, config, servers, transports, last, db, ops>>

\* A tools/list request on server s: the handler answers from the catalog.
ListTools(s) ==
    /\ s \in 1..Len(servers)
    /\ servers[s].open
    /\ ops' = <<[ops[1] EXCEPT !.listed = ListToolsResponse(ops[1].catalog)]>>
    /\ UNCHANGED <<env, mode, config, servers, transports, calls, last, db>>

(***************************************************************************)
(* The entry points (index.ts, worker.ts).                                 *)
(***************************************************************************)
\* POST /mcp, lines 366-372: configuration query parameters overwrite process.env.
ApplyQuery(e, q) ==
    [e EXCEPT !.SQLITE_DB_URL = IF Truthy(q.url) THEN q.url ELSE @,
              !.SQLITE_AUTH_TOKEN = IF Truthy(q.authToken) THEN q.authToken ELSE @,
              !.SQLITE_DB_PATH = IF Truthy(q.dbPath) THEN q.dbPath ELSE @]

\* No invocation of s's handler is still running.
Quiet(s) == \A c \in DOMAIN calls : calls[c].server = s => calls[c].pc \in {"idle", "done"}

\* startStdio: one server built from getConfig(), connected to the stdio transport.
startStdio ==
    /\ mode = "stdio"
    /\ servers = <<>>
    /\ servers' = <<createServer(OptionsFromConfig(getConfig(env)), "stdio")>>
    /\ UNCHANGED <<env, mode, config, transports, calls, last, db, ops>>

\* Faulty variant: the servers of the live sessions are rebuilt from the
\* environment the new request left behind.
InitializeSessionReconfigures(q, maxServers) ==
    /\ mode = "http"
    /\ Len(servers) < maxServers
    /\ env' = ApplyQuery(env, q)
    /\ servers' = Append([s \in 1..Len(servers) |->
                             [servers[s] EXCEPT
                                 !.opts = OptionsFromConfig(getConfig(env'))]],
                         createServer(OptionsFromConfig(getConfig(env')), "http"))
    /\ transports' = transports @@ ((Len(servers) + 1) :> (Len(servers) + 1))

\* Faulty variant: `transport` is one variable shared by all requests, and
\* onsessioninitialized registers the first transport under the new id.
InitializeSessionSharedTransport(q, maxServers) ==
    /\ mode = "http"
    /\ Len(servers) < maxServers
    /\ env' = ApplyQuery(env, q)
    /\ servers' = Append(servers, createServer(OptionsFromConfig(getConfig(env')), "http"))
    /\ transports' = transports @@ ((Len(servers) + 1) :> 1)

\* Faulty variant: the session id generator returns the same id every time.
InitializeSessionSameId(q, maxServers) ==
    /\ mode = "http"
    /\ Len(servers) < maxServers
    /\ env' = ApplyQuery(env, q)
    /\ servers' = Append(servers, createServer(OptionsFromConfig(getConfig(env')), "http"))
    /\ transports' = [x \in DOMAIN transports \cup {1} |->
                        IF x = 1 THEN Len(servers) + 1 ELSE transports[x]]

\* Lines 381-400: a new transport, registered under a fresh session id (the
\* index of its server) once initialized, and a new server built from
\* getConfig() and connected to it.
InitializeSession(q, maxServers) ==
    /\ mode = "http"
    /\ Len(servers) < maxServers
    /\ env' = ApplyQuery(env, q)
    /\ servers' = Append(servers, createServer(OptionsFromConfig(getConfig(env')), "http"))
    /\ transports' = transports @@ ((Len(servers) + 1) :> (Len(servers) + 1))

\* POST /mcp without a session id, carrying an initialize request: a new
\* transport and a new server built from getConfig(); the session is
\* registered under its fresh id (the index of its server).
PostInitialize(q, maxServers) ==
    /\ InitializeSession(q, maxServers)
    /\ UNCHANGED <<mode, config, calls, last, db, ops>>

\* POST /mcp with a known session id, carrying a tools/call request.
PostToolCall(q, sid, c, toolName, args) ==
    /\ mode = "http"
    /\ sid \in DOMAIN transports
    /\ env' = ApplyQuery(env, q)
    /\ HandlerStart(c, transports[sid], toolName, args)
    /\ UNCHANGED <<mode, config, servers, transports, last, db, ops>>

\* Faulty variant: no onclose callback is installed, the entry stays.
CloseSessionKeepsEntry(sid) ==
    /\ mode = "http"
    /\ sid \in DOMAIN transports
    /\ transports' = transports
    /\ servers' = [servers EXCEPT ![transports[sid]].open = FALSE]

\* The transport of session sid closes and its onclose callback runs.
CloseSession(sid) ==
    /\ mode = "http"
    /\ sid \in DOMAIN transports
    /\ transports' = [x \in DOMAIN transports \ {sid} |-> transports[x]]
    /\ servers' = [servers EXCEPT ![transports[sid]].open = FALSE]

\* transport.onclose, lines 389-394: the session's entry is deleted.
TransportClose(sid) ==
    /\ CloseSession(sid)
    /\ UNCHANGED <<env, mode, config, calls, last, db, ops>>

\* The SIGINT handler, lines 464-475: every transport is closed and its
\* entry deleted, then the process exits.
Sigint ==
    /\ mode = "http"
    /\ transports' = <<>>
    /\ servers' = [i \in 1..Len(servers) |-> [servers[i] EXCEPT !.open = FALSE]]
    /\ mode' = "exited"
    /\ UNCHANGED <<env, config, calls, last, db, ops>>

\* A tools/call request on the stdio transport.
StdioToolCall(c, toolName, args) ==
    /\ mode = "stdio"
    /\ HandlerStart(c, 1, toolName, args)
    /\ UNCHANGED <<env, mode, config, servers, transports, last, db, ops>>

\* worker.ts fetch, lines 585-610: a POST /mcp with a SQLITE_DB_URL query
\* parameter gets a transport and a server of its own.
WorkerFetch(dbUrl, authToken, maxServers) ==
    /\ mode = "worker"
    /\ Truthy(dbUrl)
    /\ Len(servers) < maxServers
    /\ servers' = Append(servers, createServer(WorkerOptions(dbUrl, authToken), "worker"))
    /\ UNCHANGED <<env, mode, config, transports, calls, last, db, ops>>

\* A tools/call message of the request that worker server s was built for.
WorkerToolCall(c, s, toolName, args) ==
    /\ mode = "worker"
    /\ HandlerStart(c, s, toolName, args)
    /\ UNCHANGED <<env, mode, config, servers, transports, last, db, ops>>

\* worker.ts lines 612-613: every message of the request is answered and
\* fetch returns the response; nothing refers to the server any more.
WorkerReturn(s) ==
    /\ mode = "worker"
    /\ s \in 1..Len(servers)
    /\ servers[s].open
    /\ Quiet(s)
    /\ \A c \in DOMAIN calls : calls[c].server # s
    /\ servers' = [servers EXCEPT ![s].open = FALSE]
    /\ UNCHANGED <<env, mode, config, transports, calls, last, db, ops>>

(***************************************************************************)
(* The /mcp routes of startHttp as a whole (index.ts), with the response   *)
(* each request gets.  A request carries its mcp-session-id header: none,  *)
(* an identifier a transport generated, or a string that names a member    *)
(* every JavaScript object inherits ("constructor", "toString"...).        *)
(***************************************************************************)
NoHeader == [kind |-> "missing", id |-> 0]
SessionId(n) == [kind |-> "uuid", id |-> n]
InheritedKey == [kind |-> "inherited", id |-> 0]

\* transports[sessionId] on the plain object `transports`: a transport,
\* undefined, or a member inherited from Object.prototype.
Lookup(h) ==
    CASE h.kind = "inherited" -> "inherited"
      [] h.kind = "uuid" /\ h.id \in DOMAIN transports -> "transport"
      [] OTHER -> "undefined"

\* `status` 0: the transport writes the response.
Exchange(n, method, h, body, status, by) ==
    [n |-> n, method |-> method, header |-> h, body |-> body, status |-> status, by |-> by]

NoExchange == Exchange(0, "", NoHeader, "", 0, "")

Answer(method, h, body, status, by) == Exchange(1 - last.n, method, h, body, status, by)

\* app.post('/mcp'), lines 364-424: what the handler does to the process.
HandlePost(q, h, body, c, toolName, args, maxServers) ==
    /\ mode = "http"
    /\ IF Lookup(h) = "transport"
       THEN \* line 413: the session's transport handles the request
            /\ env' = ApplyQuery(env, q)
            /\ IF body = "tools/call"
               THEN HandlerStart(c, transports[h.id], toolName, args)
               ELSE calls' = calls
            /\ last' = Answer("POST", h, body, 0, "transport")
            /\ UNCHANGED <<servers, transports>>
       ELSE IF Lookup(h) = "inherited"
       THEN \* line 413 throws TypeError: handleRequest is not a function of
            \* the inherited member; the catch of 414-423 answers
            /\ env' = ApplyQuery(env, q)
            /\ last' = Answer("POST", h, body, 500, "catch")
            /\ UNCHANGED <<servers, transports, calls>>
       ELSE IF h.kind = "missing" /\ body = "initialize"
       THEN /\ InitializeSession(q, maxServers)
            /\ last' = Answer("POST", h, body, 0, "transport")
            /\ calls' = calls
       ELSE \* lines 401-411
            /\ env' = ApplyQuery(env, q)
            /\ last' = Answer("POST", h, body, 400, "route")
            /\ UNCHANGED <<servers, transports, calls>>
    /\ UNCHANGED <<mode, config, db>>

\* app.post('/mcp'), lines 364-424.
PostMcp(q, h, body, c, toolName, args, maxServers) ==
    /\ HandlePost(q, h, body, c, toolName, args, maxServers)
    /\ UNCHANGED ops

\* app.get('/mcp'), lines 426-433.
GetMcp(h) ==
    /\ mode = "http"
    /\ last' = CASE Lookup(h) = "undefined" -> Answer("GET", h, "", 400, "route")
                  [] Lookup(h) = "inherited" -> Answer("GET", h, "", 500, "unhandled")
                  [] OTHER -> Answer("GET", h, "", 0, "transport")
    /\ UNCHANGED <<env, mode, config, servers, transports, calls, db, ops>>

\* app.delete('/mcp'), lines 435-442; the transport that handles a DELETE
\* closes itself, which runs its onclose callback.
DeleteMcp(h) ==
    /\ mode = "http"
    /\ IF Lookup(h) = "transport"
       THEN /\ CloseSession(h.id)
            /\ last' = Answer("DELETE", h, "", 0, "transport")
       ELSE /\ last' = IF Lookup(h) = "inherited"
                       THEN Answer("DELETE", h, "", 500, "unhandled")
                       ELSE Answer("DELETE", h, "", 400, "route")
            /\ UNCHANGED <<servers, transports>>
    /\ UNCHANGED <<env, mode, config, calls, db, ops>>

(***************************************************************************)
(* The database behind one client.                                         *)
(* `data` is the set of rows of one table keyed by its primary key; `torn` *)
(* records that the data hold part of the effects of a script that failed. *)
(* A statement is a record; an SQL text is the sequence of the segments    *)
(* its split at ';' yields.                                                *)
(***************************************************************************)
NoDb == [impl |-> "none", data |-> {}, torn |-> FALSE]

Insert(n) == [kind |-> "insert", row |-> n]           \* INSERT INTO t VALUES (n)
InsertReturning(n) == [kind |-> "insertReturning", row |-> n]  \* ... RETURNING id
Select == [kind |-> "select", row |-> 0]              \* SELECT id FROM t
Delete == [kind |-> "delete", row |-> 0]              \* DELETE FROM t
Commit == [kind |-> "commit", row |-> 0]              \* COMMIT
Bad == [kind |-> "bad", row |-> 0]                    \* a text the engine cannot parse
Blank == [kind |-> "blank", row |-> 0]                \* empty or whitespace only

\* sql.split(';').map(trim).filter(s => s.length > 0), on the segments.
SplitStatements(segments) == SelectSeq(segments, LAMBDA st : st.kind # "blank")

\* The engine prepares the statement: a text it cannot parse is refused.
Prepares(st) == st.kind # "bad"

\* The statement yields a result set (better-sqlite3: stmt.reader).
ReturnsData(st) == st.kind \in {"select", "insertReturning"}

\* The engine runs one statement on `data`, `inTx` telling whether a
\* transaction is open on the connection.
ExecStmt(data, inTx, st) ==
    CASE st.kind \in {"insert", "insertReturning"} ->
            IF st.row \in data
            THEN [ok |-> FALSE, data |-> data, inTx |-> inTx]   \* UNIQUE constraint failed
            ELSE [ok |-> TRUE, data |-> data \cup {st.row}, inTx |-> inTx]
      [] st.kind = "delete" -> [ok |-> TRUE, data |-> {}, inTx |-> inTx]
      [] st.kind = "select" -> [ok |-> TRUE, data |-> data, inTx |-> inTx]
      [] st.kind = "commit" ->
            IF inTx THEN [ok |-> TRUE, data |-> data, inTx |-> FALSE]
            ELSE [ok |-> FALSE, data |-> data, inTx |-> FALSE]  \* no transaction is active
      [] OTHER -> [ok |-> FALSE, data |-> data, inTx |-> inTx]

\* The loop of runScript: db.exec on each statement from the i-th on, until
\* one throws.  `applied` counts the statements that ran.
RECURSIVE ExecFrom(_, _, _, _)
ExecFrom(stmts, i, data, inTx) ==
    IF i > Len(stmts) THEN [ok |-> TRUE, data |-> data, inTx |-> inTx, applied |-> i - 1]
    ELSE LET r == ExecStmt(data, inTx, stmts[i]) IN
         IF r.ok THEN ExecFrom(stmts, i + 1, r.data, r.inTx)
         ELSE [ok |-> FALSE, data |-> data, inTx |-> inTx, applied |-> i - 1]

OpResult(threw, data, run, applied) ==
    [threw |-> threw, data |-> data, run |-> run, applied |-> applied]

\* SqliteClient.runScript (part_000, 58-73): db.transaction(fn)() begins a
\* transaction, runs the loop, commits; when the loop or the commit throws
\* it rolls back if a transaction is still open, and rethrows.
SqliteClientRunScript(before, segments) ==
    LET stmts == SplitStatements(segments)
        r == ExecFrom(stmts, 1, before, TRUE) IN
    IF r.ok /\ r.inTx THEN OpResult(FALSE, r.data, Len(stmts), r.applied)
    ELSE IF r.inTx THEN OpResult(TRUE, before, Len(stmts), r.applied)
    ELSE OpResult(TRUE, r.data, Len(stmts), r.applied)

\* SqliteClient.query (40-50): prepare, then stmt.all(), which refuses a
\* statement that yields no result set without running it.
SqliteClientQuery(before, st) ==
    IF ~Prepares(st) \/ ~ReturnsData(st) THEN OpResult(TRUE, before, 0, 0)
    ELSE LET r == ExecStmt(before, FALSE, st) IN OpResult(~r.ok, r.data, 1, 1)

\* SqliteClient.execute (52-56): prepare, then stmt.run().
SqliteClientExecute(before, st) ==
    IF ~Prepares(st) THEN OpResult(TRUE, before, 0, 0)
    ELSE LET r == ExecStmt(before, FALSE, st) IN OpResult(~r.ok, r.data, 1, 1)

\* LibSqlClient.runScript (62-71): client.batch(statements, 'write'), which
\* the engine runs in one transaction: all statements take effect, or none.
LibSqlClientRunScript(before, segments) ==
    LET stmts == SplitStatements(segments)
        r == ExecFrom(stmts, 1, before, TRUE) IN
    IF r.ok THEN OpResult(FALSE, r.data, Len(stmts), r.applied)
    ELSE OpResult(TRUE, before, Len(stmts), r.applied)

\* LibSqlClient.query (35-49) and LibSqlClient.execute (51-60): both are
\* client.execute({sql, args}), which runs whatever statement it is given.
LibSqlClientExecute(before, st) ==
    LET r == ExecStmt(before, FALSE, st) IN OpResult(~r.ok, r.data, 1, 1)

LibSqlClientQuery(before, st) == LibSqlClientExecute(before, st)

IdleOp ==
    [pc |-> "idle", op |-> "", sql |-> <<>>, before |-> {}, after |-> {},
     threw |-> FALSE, run |-> 0, sawTorn |-> FALSE]

\* What a finished call of `op` with `sql` leaves in its slot and in the
\* database, `r` being the result of the method.
Finish(o, op, sql, r) ==
    /\ ops' = [ops EXCEPT ![o] =
          [pc |-> "done", op |-> op, sql |-> sql, before |-> db.data, after |-> r.data,
           threw |-> r.threw, run |-> r.run, sawTorn |-> db.torn]]
    /\ db' = [db EXCEPT !.data = r.data,
                        !.torn = @ \/ (/\ op = "runScript"
                                        /\ r.data # db.data
                                        /\ r.applied < r.run)]

\* A method of the local client: its body runs to completion without an await.
SqliteClientCall(o, op, sql) ==
    /\ db.impl = "local"
    /\ ops[o].pc = "idle"
    /\ Finish(o, op, sql,
              CASE op = "query" -> SqliteClientQuery(db.data, sql[1])
                [] op = "execute" -> SqliteClientExecute(db.data, sql[1])
                [] OTHER -> SqliteClientRunScript(db.data, sql))
    /\ UNCHANGED <<env, mode, config, servers, transports, calls, last>>

\* A method of the remote client is called: the request is sent and awaited.
LibSqlClientCall(o, op, sql) ==
    /\ db.impl = "remote"
    /\ ops[o].pc = "idle"
    /\ ops' = [ops EXCEPT ![o] = [IdleOp EXCEPT !.pc = "sent", !.op = op, !.sql = sql]]
    /\ UNCHANGED <<env, mode, config, servers, transports, calls, last, db>>

\* The engine runs the request and the awaited promise settles.
LibSqlClientSettle(o) ==
    /\ db.impl = "remote"
    /\ ops[o].pc = "sent"
    /\ Finish(o, ops[o].op, ops[o].sql,
              CASE ops[o].op = "query" -> LibSqlClientQuery(db.data, ops[o].sql[1])
                [] ops[o].op = "execute" -> LibSqlClientExecute(db.data, ops[o].sql[1])
                [] OTHER -> LibSqlClientRunScript(db.data, ops[o].sql))
    /\ UNCHANGED <<env, mode, config, servers, transports, calls, last>>

\* The caller has its result; the slot is free again.
OpReturn(o) ==
    /\ ops[o].pc = "done"
    /\ ops' = [ops EXCEPT ![o] = IdleOp]
    /\ UNCHANGED <<env, mode, config, servers, transports, calls, last, db>>

(***************************************************************************)
(* The SQL texts the schema operations build (libsql-client.ts 75-237; the *)
(* local client of part_000, 77-199, builds the same texts).  A text is    *)
(* the sequence of its pieces, each tagged with where it comes from: the   *)
(* template ("text"), a table, column or index name ("name"), a column     *)
(* type ("type"), a default literal ("default"), or the caller's own SQL   *)
(* ("sql").                                                                *)
(***************************************************************************)
Lit(s) == [s |-> s, from |-> "text"]
Name(s) == [s |-> s, from |-> "name"]
DQ == Lit("\"")

\* `"${name}"`
Quoted(name) == <<DQ, Name(name), DQ>>

\* A statement handed to the engine: its text and its bound parameters.
Stmt(text, params) == [text |-> text, params |-> params]

\* parts.join(sep) on sequences of pieces.
RECURSIVE JoinPieces(_, _)
JoinPieces(parts, sep) ==
    IF Len(parts) = 0 THEN <<>>
    ELSE IF Len(parts) = 1 THEN parts[1]
    ELSE parts[1] \o <<Lit(sep)>> \o JoinPieces(Tail(parts), sep)

\* ` DEFAULT ${typeof d === 'string' ? `'${d}'` : d}`
DefaultClause(d) ==
    IF d.t = "str"
    THEN <<Lit(" DEFAULT "), Lit("'"), [s |-> d.v, from |-> "default"], Lit("'")>>
    ELSE <<Lit(" DEFAULT "), [s |-> ToString(d.v), from |-> "default"]>>

\* listTables: the catalog query, then one count per table the engine named.
ListTablesSql(impl, found) ==
    <<Stmt(<<Lit(IF impl = "remote"
                 THEN "SELECT name, type FROM sqlite_master WHERE type IN ('table', 'view') AND name NOT LIKE 'sqlite_%' AND name NOT LIKE '_litestream_%' ORDER BY name"
                 ELSE "SELECT name, type FROM sqlite_master WHERE type IN ('table', 'view') AND name NOT LIKE 'sqlite_%' ORDER BY name")>>,
           <<>>)>>
    \o [i \in 1..Len(found) |->
          Stmt(<<Lit("SELECT COUNT(*) as count FROM ")>> \o Quoted(found[i]), <<>>)]

PragmaSql(pragma, table) ==
    Stmt(<<Lit("PRAGMA " \o pragma \o "(")>> \o Quoted(table) \o <<Lit(")")>>, <<>>)

DescribeTableSql(table) ==
    <<PragmaSql("table_info", table),
      Stmt(<<Lit("SELECT sql FROM sqlite_master WHERE name = ?")>>, <<table>>)>>

ColumnDef(col) ==
    Quoted(col.name) \o <<Lit(" "), [s |-> col.type, from |-> "type"]>>
    \o (IF col.primaryKey THEN <<Lit(" PRIMARY KEY")>> ELSE <<>>)
    \o (IF col.notNull THEN <<Lit(" NOT NULL")>> ELSE <<>>)
    \o (IF col.unique THEN <<Lit(" UNIQUE")>> ELSE <<>>)
    \o (IF col.default.t # "undef" THEN DefaultClause(col.default) ELSE <<>>)

CreateTableSql(table, columns, ifNotExists) ==
    Stmt(<<Lit("CREATE TABLE" \o (IF ifNotExists THEN " IF NOT EXISTS" ELSE "") \o " ")>>
         \o Quoted(table) \o <<Lit(" (")>>
         \o JoinPieces([i \in 1..Len(columns) |-> ColumnDef(columns[i])], ", ")
         \o <<Lit(")")>>,
         <<>>)

AlterTableSql(table, action, params) ==
    CASE action = "add_column" ->
            Stmt(<<Lit("ALTER TABLE ")>> \o Quoted(table) \o <<Lit(" ADD COLUMN ")>>
                 \o Quoted(params.column) \o <<Lit(" "), [s |-> params.type, from |-> "type"]>>
                 \o (IF params.notNull THEN <<Lit(" NOT NULL")>> ELSE <<>>)
                 \o (IF params.default.t # "undef" THEN DefaultClause(params.default) ELSE <<>>),
                 <<>>)
      [] action = "rename_column" ->
            Stmt(<<Lit("ALTER TABLE ")>> \o Quoted(table) \o <<Lit(" RENAME COLUMN ")>>
                 \o Quoted(params.oldName) \o <<Lit(" TO ")>> \o Quoted(params.newName),
                 <<>>)
      [] action = "rename_table" ->
            Stmt(<<Lit("ALTER TABLE ")>> \o Quoted(table) \o <<Lit(" RENAME TO ")>>
                 \o Quoted(params.newTableName),
                 <<>>)

\* Faulty variant: the table name is interpolated bare.
DropTableSqlUnquoted(table, ifExists) ==
    Stmt(<<Lit("DROP TABLE" \o (IF ifExists THEN " IF EXISTS" ELSE "") \o " "), Name(table)>>,
         <<>>)

DropTableSql(table, ifExists) ==
    Stmt(<<Lit("DROP TABLE" \o (IF ifExists THEN " IF EXISTS" ELSE "") \o " ")>>
         \o Quoted(table),
         <<>>)

\* Faulty variant: `indexName ?? ...`, which keeps an empty indexName.
IndexNameNullish(table, columns, indexName) ==
    IF indexName # Undefined THEN indexName
    ELSE "idx_" \o table \o "_" \o JoinWith(columns, "_")

\* createIndex: const name = indexName || `idx_${table}_${columns.join('_')}`
IndexName(table, columns, indexName) ==
    IF Truthy(indexName) THEN indexName
    ELSE "idx_" \o table \o "_" \o JoinWith(columns, "_")

CreateIndexSql(table, columns, indexName, unique, ifNotExists) ==
    Stmt(<<Lit("CREATE" \o (IF unique THEN " UNIQUE" ELSE "") \o " INDEX"
               \o (IF ifNotExists THEN " IF NOT EXISTS" ELSE "") \o " ")>>
         \o Quoted(IndexName(table, columns, indexName))
         \o <<Lit(" ON ")>> \o Quoted(table) \o <<Lit(" (")>>
         \o JoinPieces([i \in 1..Len(columns) |-> Quoted(columns[i])], ", ")
         \o <<Lit(")")>>,
         <<>>)

\* Faulty variant: the ifExists flag is dropped.
DropIndexSqlUnconditional(indexName, ifExists) ==
    Stmt(<<Lit("DROP INDEX ")>> \o Quoted(indexName), <<>>)

DropIndexSql(indexName, ifExists) ==
    Stmt(<<Lit("DROP INDEX" \o (IF ifExists THEN " IF EXISTS" ELSE "") \o " ")>>
         \o Quoted(indexName),
         <<>>)

\* query and execute: the caller's SQL as it is, its values as parameters.
ExecuteSql(sql, params) == Stmt(<<[s |-> sql, from |-> "sql"]>>, params)

\* args.<k> where the property may be missing.
Opt(args, k) == IF k \in DOMAIN args THEN args[k] ELSE Undefined

\* The statements the operation `op` of a client hands to its engine.
SqlOf(impl, op, args) ==
    CASE op \in {"query", "execute"} -> <<ExecuteSql(args.sql, args.params)>>
      [] op = "listTables" -> ListTablesSql(impl, args.found)
      [] op = "describeTable" -> DescribeTableSql(args.table)
      [] op = "listIndexes" -> <<PragmaSql("index_list", args.table)>>
      [] op = "listForeignKeys" -> <<PragmaSql("foreign_key_list", args.table)>>
      [] op = "createTable" -> <<CreateTableSql(args.table, args.columns, args.ifNotExists)>>
      [] op = "alterTable" -> <<AlterTableSql(args.table, args.action, args)>>
      [] op = "dropTable" -> <<DropTableSql(args.table, args.ifExists)>>
      [] op = "createIndex" ->
            <<CreateIndexSql(args.table, args.columns, Opt(args, "indexName"),
                             args.unique, args.ifNotExists)>>
      [] op = "dropIndex" -> <<DropIndexSql(args.indexName, args.ifExists)>>

\* A call of a client operation that has not run yet.
AskedSql(impl, op, args) ==
    [pc |-> "asked", impl |-> impl, op |-> op, args |-> args,
     statements |-> <<>>, reported |-> ""]

\* The asked client operation builds its statements.
ClientBuildsSql ==
    /\ Len(ops) = 1
    /\ ops[1].pc = "asked"
    /\ ops' = <<[ops[1] EXCEPT !.pc = "built",
                               !.statements = SqlOf(ops[1].impl, ops[1].op, ops[1].args)]>>
    /\ UNCHANGED <<env, mode, config, servers, transports, calls, last, db>>

\* handleToolCall, case 'sqlite_create_index' (server.ts 75-90): the client
\* creates the index, then the index name is reported in the result.
CreateIndexTool ==
    /\ Len(ops) = 1
    /\ ops[1].pc = "asked"
    /\ ops[1].op = "createIndex"
    /\ ops' = <<[ops[1] EXCEPT !.pc = "answered",
                               !.statements = SqlOf(ops[1].impl, "createIndex", ops[1].args),
                               !.reported = ToolResult("sqlite_create_index", ops[1].args,
                                                       JUndef).v[3][2].v]>>
    /\ UNCHANGED <<env, mode, config, servers, transports, calls, last, db>>

(***************************************************************************)
(* The engine's catalog behind the schema tools.  The engine is SQLite     *)
(* (better-sqlite3 locally, libsql remotely): an object of the catalog is  *)
(* a table, a view or an index; `rows` is what the count query answers    *)
(* and `counts` is FALSE where that query fails (a view whose table is     *)
(* gone).                                                                  *)
(***************************************************************************)
TableObj(name, cols, rows) ==
    [name |-> name, type |-> "table", tbl |-> "", cols |-> cols, rows |-> rows,
     counts |-> TRUE]
ViewObj(name, rows, counts) ==
    [name |-> name, type |-> "view", tbl |-> "", cols |-> {}, rows |-> rows,
     counts |-> counts]
IndexObj(name, tbl) ==
    [name |-> name, type |-> "index", tbl |-> tbl, cols |-> {}, rows |-> 0,
     counts |-> FALSE]

\* The characters of the names that occur in a catalog.
Chars(name) ==
    CASE name = "t" -> <<"t">>
      [] name = "u" -> <<"u">>
      [] name = "B" -> <<"B">>
      [] name = "v" -> <<"v">>
      [] name = "w" -> <<"w">>
      [] name = "sqlitex" -> <<"s", "q", "l", "i", "t", "e", "x">>
      [] name = "sqlite_sequence" ->
            <<"s", "q", "l", "i", "t", "e", "_", "s", "e", "q", "u", "e", "n", "c", "e">>
      [] name = "_litestream_seq" ->
            <<"_", "l", "i", "t", "e", "s", "t", "r", "e", "a", "m", "_", "s", "e", "q">>

\* The code unit of a character (the BINARY collation compares these).
Code(ch) ==
    CASE ch = "B" -> 66 [] ch = "_" -> 95 [] ch = "a" -> 97 [] ch = "c" -> 99
      [] ch = "e" -> 101 [] ch = "i" -> 105 [] ch = "l" -> 108 [] ch = "m" -> 109
      [] ch = "n" -> 110 [] ch = "q" -> 113 [] ch = "r" -> 114 [] ch = "s" -> 115
      [] ch = "t" -> 116 [] ch = "u" -> 117 [] ch = "v" -> 118 [] ch = "w" -> 119
      [] ch = "x" -> 120

\* ORDER BY name: a sorts before b.
RECURSIVE Before(_, _)
Before(a, b) ==
    IF b = <<>> THEN FALSE
    ELSE IF a = <<>> THEN TRUE
    ELSE IF Code(Head(a)) # Code(Head(b)) THEN Code(Head(a)) < Code(Head(b))
    ELSE Before(Tail(a), Tail(b))

\* LIKE folds the case of ASCII letters.
Fold(ch) == IF ch = "B" THEN "b" ELSE ch

\* name LIKE pattern: % matches any run of characters, _ any one character.
RECURSIVE Like(_, _)
Like(str, pat) ==
    IF pat = <<>> THEN str = <<>>
    ELSE IF Head(pat) = "%"
    THEN Like(str, Tail(pat)) \/ (str # <<>> /\ Like(Tail(str), pat))
    ELSE /\ str # <<>>
         /\ (Head(pat) = "_" \/ Fold(Head(str)) = Fold(Head(pat)))
         /\ Like(Tail(str), Tail(pat))

SqlitePattern == <<"s", "q", "l", "i", "t", "e", "_", "%">>
LitestreamPattern == <<"_", "l", "i", "t", "e", "s", "t", "r", "e", "a", "m", "_", "%">>

\* The names a sequence of catalog rows holds, sorted by name.
RECURSIVE SortByName(_)
SortByName(objs) ==
    IF objs = {} THEN <<>>
    ELSE LET first == CHOOSE o \in objs :
                         \A p \in objs \ {o} : Before(Chars(o.name), Chars(p.name)) IN
         <<first>> \o SortByName(objs \ {first})

\* The rows the catalog query of listTables returns: lines 79-81 of the local
\* client, line 77 of the remote one.
CatalogRows(impl, data) ==
    SortByName({o \in data :
        /\ o.type \in {"table", "view"}
        /\ ~Like(Chars(o.name), SqlitePattern)
        /\ impl = "remote" => ~Like(Chars(o.name), LitestreamPattern)})

\* Faulty variant: the counted value is never assigned.
RowCountUnassigned(o) == 0

\* The count query of one entry inside try/catch: rowCount stays 0 when the
\* statement fails.
RowCount(o) == IF o.counts THEN o.rows ELSE 0

\* listTables of either client: the value it returns.
ListTables(impl, data) ==
    LET found == CatalogRows(impl, data) IN
    [i \in 1..Len(found) |->
        [name |-> found[i].name, type |-> found[i].type, rowCount |-> RowCount(found[i])]]

\* The same value as handleToolCall serializes it.
ListTablesValue(listed) ==
    JArr([i \in 1..Len(listed) |->
            JObj(<< <<"name", JStr(listed[i].name)>>, <<"type", JStr(listed[i].type)>>,
                    <<"rowCount", JNum(listed[i].rowCount)>> >>)])

\* What the engine answers a statement with: it fails with a message and
\* leaves the catalog, or succeeds and leaves `data`.
EngineFails(data, message) == [threw |-> TRUE, message |-> message, data |-> data]
EngineDone(data) == [threw |-> FALSE, message |-> "", data |-> data]

\* The interpolated names of a statement, in order.
NamesOf(stmt) ==
    LET ps == SelectSeq(stmt.text, LAMBDA p : p.from = "name") IN
    [i \in 1..Len(ps) |-> ps[i].s]

Named(data, name) == {o \in data : o.name = name}

\* The engine runs one schema statement built by a client.
EngineRun(data, stmt) ==
    LET head == stmt.text[1].s
        names == NamesOf(stmt)
        hit == Named(data, names[1]) IN
    CASE head \in {"DROP TABLE ", "DROP TABLE IF EXISTS "} ->
            IF \E o \in hit : o.type = "table"
            THEN EngineDone({o \in data : o.name # names[1] /\ o.tbl # names[1]})
            ELSE IF \E o \in hit : o.type = "view"
            THEN EngineFails(data, "use DROP VIEW to delete view " \o names[1])
            ELSE IF head = "DROP TABLE IF EXISTS " THEN EngineDone(data)
            ELSE EngineFails(data, "no such table: " \o names[1])
      [] head \in {"DROP INDEX ", "DROP INDEX IF EXISTS "} ->
            IF \E o \in hit : o.type = "index"
            THEN EngineDone({o \in data : o.name # names[1]})
            ELSE IF head = "DROP INDEX IF EXISTS " THEN EngineDone(data)
            ELSE EngineFails(data, "no such index: " \o names[1])
      [] head \in {"CREATE TABLE ", "CREATE TABLE IF NOT EXISTS "} ->
            IF \E o \in hit : o.type = "index"
            THEN EngineFails(data, "there is already an index named " \o names[1])
            ELSE IF hit # {}
            THEN IF head = "CREATE TABLE IF NOT EXISTS " THEN EngineDone(data)
                 ELSE EngineFails(data, "table " \o names[1] \o " already exists")
            ELSE IF Cardinality({names[i] : i \in 2..Len(names)}) # Len(names) - 1
            THEN EngineFails(data, "duplicate column name")
            ELSE EngineDone(data \cup
                    {TableObj(names[1], {names[i] : i \in 2..Len(names)}, 0)})
      [] head \in {"CREATE INDEX ", "CREATE INDEX IF NOT EXISTS ",
                   "CREATE UNIQUE INDEX ", "CREATE UNIQUE INDEX IF NOT EXISTS "} ->
            LET on == {o \in Named(data, names[2]) : o.type = "table"} IN
            IF on = {} THEN EngineFails(data, "no such table: main." \o names[2])
            ELSE IF \E o \in hit : o.type = "index"
            THEN IF head \in {"CREATE INDEX IF NOT EXISTS ",
                              "CREATE UNIQUE INDEX IF NOT EXISTS "}
                 THEN EngineDone(data)
                 ELSE EngineFails(data, "index " \o names[1] \o " already exists")
            ELSE IF hit # {}
            THEN EngineFails(data, "there is already a table named " \o names[1])
            ELSE IF \E i \in 3..Len(names) : \A o \in on : names[i] \notin o.cols
            THEN EngineFails(data, "no such column")
            ELSE EngineDone(data \cup {IndexObj(names[1], names[2])})
      [] head = "ALTER TABLE " ->
            LET on == {o \in hit : o.type = "table"}
                verb == stmt.text[5].s IN
            IF on = {} THEN EngineFails(data, "no such table: " \o names[1])
            ELSE LET tab == CHOOSE o \in on : TRUE IN
                 CASE verb = " RENAME TO " ->
                        IF Named(data, names[2]) # {}
                        THEN EngineFails(data, "there is already another table or index with this name: " \o names[2])
                        ELSE EngineDone({IF o = tab THEN [o EXCEPT !.name = names[2]]
                                         ELSE IF o.tbl = names[1]
                                         THEN [o EXCEPT !.tbl = names[2]] ELSE o :
                                         o \in data})
                   [] verb = " RENAME COLUMN " ->
                        IF names[2] \notin tab.cols
                        THEN EngineFails(data, "no such column: " \o names[2])
                        ELSE IF names[3] \in tab.cols
                        THEN EngineFails(data, "duplicate column name: " \o names[3])
                        ELSE EngineDone((data \ {tab}) \cup
                                {[tab EXCEPT !.cols = (@ \ {names[2]}) \cup {names[3]}]})
                   [] verb = " ADD COLUMN " ->
                        IF names[2] \in tab.cols
                        THEN EngineFails(data, "duplicate column name: " \o names[2])
                        ELSE IF /\ \E i \in 1..Len(stmt.text) : stmt.text[i] = Lit(" NOT NULL")
                                /\ ~\E i \in 1..Len(stmt.text) : stmt.text[i] = Lit(" DEFAULT ")
                        THEN EngineFails(data, "Cannot add a NOT NULL column with default value NULL")
                        ELSE EngineDone((data \ {tab}) \cup
                                {[tab EXCEPT !.cols = @ \cup {names[2]}]})

\* Faulty variant: the switch has no default case and an unknown action runs
\* the last case.
AlterTableStatementsFallThrough(impl, args) ==
    IF args.action \in KnownAlterActions
    THEN <<AlterTableSql(args.table, args.action, args)>>
    ELSE <<AlterTableSql(args.table, "rename_table", args)>>

\* alterTable of either client (libsql-client.ts 177-202, part_000 143-171):
\* the statements it sends; an action outside the switch throws before any.
AlterTableStatements(impl, args) ==
    IF args.action \in KnownAlterActions
    THEN <<AlterTableSql(args.table, args.action, args)>>
    ELSE <<>>

\* The five schema-changing tools.
SchemaTools ==
    {"sqlite_create_table", "sqlite_alter_table", "sqlite_drop_table",
     "sqlite_create_index", "sqlite_drop_index"}

\* The statements a schema-changing client operation sends.
SchemaStatements(impl, op, args) ==
    IF op = "alterTable" THEN AlterTableStatements(impl, args) ELSE SqlOf(impl, op, args)

\* A schema-changing client operation on the catalog `data`: how it ends
\* for handleToolCall, and the catalog it leaves.
SchemaOp(impl, op, args, data) ==
    LET sent == SchemaStatements(impl, op, args) IN
    IF sent = <<>>
    THEN [outcome |-> Threw("Unknown alter action: " \o args.action), data |-> data]
    ELSE LET r == EngineRun(data, sent[1]) IN
         [outcome |-> IF r.threw THEN Threw(r.message) ELSE Returned(JUndef),
          data |-> r.data]

\* A call of a schema-changing tool, from the handler's try block to the
\* envelope it returns (server.ts 158-179 around handleToolCall 49-97).
SchemaToolCall(toolName, args) ==
    /\ toolName \in SchemaTools
    /\ LET r == SchemaOp(db.impl, ClientOp(toolName), args, db.data) IN
       /\ db' = [db EXCEPT !.data = r.data]
       /\ ops' = <<[pc |-> "answered", tool |-> toolName, args |-> args,
                    before |-> db.data,
                    statements |-> SchemaStatements(db.impl, ClientOp(toolName), args),
                    listed |-> <<>>,
                    envelope |-> ResultEnvelope(toolName, args, r.outcome)]>>
    /\ UNCHANGED <<env, mode, config, servers, transports, calls, last>>

\* A call of sqlite_list_tables.
ListTablesToolCall ==
    /\ LET listed == ListTables(db.impl, db.data) IN
       ops' = <<[pc |-> "answered", tool |-> "sqlite_list_tables", args |-> [none |-> ""],
                 before |-> db.data,
                 statements |-> ListTablesSql(db.impl,
                                   [i \in 1..Len(listed) |-> listed[i].name]),
                 listed |-> listed,
                 envelope |-> ResultEnvelope("sqlite_list_tables", [none |-> ""],
                                             Returned(ListTablesValue(listed)))]>>
    /\ UNCHANGED <<env, mode, config, servers, transports, calls, last, db>>

(***************************************************************************)
(* runScript's splitting of its text (part_000 60-63, libsql-client.ts     *)
(* 63-66).  Here a text is the sequence of its characters.                 *)
(***************************************************************************)
Whitespace(ch) == ch \in {" ", "\n"}

\* sql.split(';'): the pieces between the semicolons, empty ones included.
RECURSIVE SplitSemicolon(_, _)
SplitSemicolon(text, acc) ==
    IF text = <<>> THEN <<acc>>
    ELSE IF Head(text) = ";" THEN <<acc>> \o SplitSemicolon(Tail(text), <<>>)
    ELSE SplitSemicolon(Tail(text), Append(acc, Head(text)))

\* s.trim()
RECURSIVE TrimStart(_)
TrimStart(s) == IF s # <<>> /\ Whitespace(Head(s)) THEN TrimStart(Tail(s)) ELSE s
RECURSIVE TrimEnd(_)
TrimEnd(s) ==
    IF s # <<>> /\ Whitespace(s[Len(s)]) THEN TrimEnd(SubSeq(s, 1, Len(s) - 1)) ELSE s
Trim(s) == TrimEnd(TrimStart(s))

\* SqliteClient.runScript, lines 60-63.
SqliteClientStatements(sql) ==
    LET pieces == SplitSemicolon(sql, <<>>)
        trimmed == [i \in 1..Len(pieces) |-> Trim(pieces[i])] IN
    SelectSeq(trimmed, LAMBDA s : Len(s) > 0)

\* Faulty variant: the pieces are filtered without being trimmed.
LibSqlClientStatementsUntrimmed(sql) ==
    SelectSeq(SplitSemicolon(sql, <<>>), LAMBDA s : Len(s) > 0)

\* LibSqlClient.runScript, lines 63-66.
LibSqlClientStatements(sql) ==
    LET pieces == SplitSemicolon(sql, <<>>)
        trimmed == [i \in 1..Len(pieces) |-> Trim(pieces[i])] IN
    SelectSeq(trimmed, LAMBDA s : Len(s) > 0)

\* SqliteClient.runScript on the text of the asked call: the statements are
\* executed one by one inside the transaction and counted; the engine may
\* reject the statement at position failAt (0: none).
SqliteClientRunsText(failAt) ==
    /\ Len(ops) = 1
    /\ ops[1].pc = "asked"
    /\ ops[1].impl = "local"
    /\ LET statements == SqliteClientStatements(ops[1].text) IN
       /\ failAt \in 0..Len(statements)
       /\ ops' = <<[ops[1] EXCEPT
              !.pc = "done",
              !.threw = failAt # 0,
              !.executed = IF failAt = 0 THEN statements
                           ELSE SubSeq(statements, 1, failAt - 1),
              !.statementsRun = IF failAt = 0 THEN Len(statements) ELSE 0]>>
    /\ UNCHANGED <<env, mode, config, servers, transports, calls, last, db>>

\* LibSqlClient.runScript on the text of the asked call: the statements go to
\* the engine as one batch and their number is returned; the engine may
\* reject the batch.
LibSqlClientRunsText(fails) ==
    /\ Len(ops) = 1
    /\ ops[1].pc = "asked"
    /\ ops[1].impl = "remote"
    /\ LET statements == LibSqlClientStatements(ops[1].text) IN
       /\ fails => statements # <<>>
       /\ ops' = <<[ops[1] EXCEPT
              !.pc = "done",
              !.threw = fails,
              !.executed = IF fails THEN <<>> ELSE statements,
              !.statementsRun = IF fails THEN 0 ELSE Len(statements)]>>
    /\ UNCHANGED <<env, mode, config, servers, transports, calls, last, db>>

(***************************************************************************)
(* Inputs and bounds.                                                      *)
(***************************************************************************)
MaxCalls == 1       \* Spec: handler invocations in flight at once
MaxRaceCalls == 2   \* SpecMemo: handler invocations in flight at once
MaxServers == 2     \* SpecEntry: servers (sessions, worker requests) per run
MaxEntryCalls == 1  \* SpecEntry: handler invocations in flight at once
MaxSessions == 2    \* SpecHttp: sessions initialized per run
MaxScriptLen == 3   \* SpecDb: segments of the text given to the local runScript
MaxBatchLen == 2    \* SpecDb: segments of the text given to the remote runScript
MaxColumns == 2     \* SpecSql: columns of a created table or index
MaxTextLen == 4     \* SpecScript: characters of the text given to runScript

StartUrls == {Undefined, "libsql://a"}
StartPaths == {Undefined, "/a.db"}
QueryUrls == {Undefined, "libsql://b"}
WorkerUrls == {"libsql://a"}

StartEnvs == {EnvOf(u, Undefined, p, Undefined) : u \in StartUrls, p \in StartPaths}

Queries == {[url |-> u, authToken |-> Undefined, dbPath |-> Undefined] : u \in QueryUrls}

\* The tools the specifications about memoization and entry points call.
MemoTools == {"sqlite_query", "sqlite_alter_table"}
EntryTools == {"sqlite_list_tables"}

\* A new invocation takes the first idle slot.
FirstIdle(c) ==
    /\ calls[c].pc = "idle"
    /\ \A d \in DOMAIN calls : d < c => calls[d].pc # "idle"

(***************************************************************************)
(* SpecConfig: getConfig() on every environment.                           *)
(***************************************************************************)
Unresolved == [kind |-> "unresolved"]

ConfigEnvs ==
    {EnvOf(u, t, p, m) :
        u \in {Undefined, "", "libsql://a", "libsql://b"},
        t \in {Undefined, "tok-a"},
        p \in {Undefined, "", "/a.db", "/b.db"},
        m \in {Undefined, "250", "soon"}}

InitConfig ==
    /\ mode = "config"
    /\ env \in ConfigEnvs
    /\ config = Unresolved
    /\ servers = <<>>
    /\ transports = <<>>
    /\ calls = <<>>
    /\ last = NoExchange
    /\ db = NoDb
    /\ ops = <<>>

ResolveConfig ==
    /\ config = Unresolved
    /\ config' = getConfig(env)
    /\ UNCHANGED <<env, mode, servers, transports, calls, last, db, ops>>

NextConfig == ResolveConfig

SpecConfig == InitConfig /\ [][NextConfig]_vars

(***************************************************************************)
(* Spec: one server instance, built by createServer from each kind of      *)
(* options an entry point passes, and its registered handler called with   *)
(* every tool of the catalog.                                              *)
(***************************************************************************)
OptionInputs ==
    {OptionsFromConfig(getConfig(e)) : e \in StartEnvs}
    \cup {WorkerOptions(u, Undefined) : u \in WorkerUrls}

ToolCall(c, toolName, args) ==
    /\ FirstIdle(c)
    /\ HandlerStart(c, 1, toolName, args)
    /\ UNCHANGED <<env, mode, config, servers, transports, last, db, ops>>

Init ==
    /\ mode = "direct"
    /\ env \in StartEnvs
    /\ config = Unresolved
    /\ \E o \in OptionInputs : servers = <<createServer(o, "direct")>>
    /\ transports = <<>>
    /\ calls = [c \in 1..MaxCalls |-> IdleCall]
    /\ last = NoExchange
    /\ db = NoDb
    /\ ops = <<>>

Next ==
    \/ \E c \in DOMAIN calls, t \in ToolNames : \E a \in ToolArgs(t) : ToolCall(c, t, a)
    \/ \E c \in DOMAIN calls : FactoryResolve(c)
    \/ \E c \in DOMAIN calls : FactoryReject(c)
    \/ \E c \in DOMAIN calls : OperationEnds(c)
    \/ \E c \in DOMAIN calls : Respond(c)

Spec == Init /\ [][Next]_vars

(***************************************************************************)
(* SpecCatalog: the server of Spec with the catalog it was started with    *)
(* and tools/list requests among its tool calls.                           *)
(***************************************************************************)
InitCatalog ==
    /\ mode = "direct"
    /\ env \in StartEnvs
    /\ config = Unresolved
    /\ \E o \in OptionInputs : servers = <<createServer(o, "direct")>>
    /\ transports = <<>>
    /\ calls = [c \in 1..MaxCalls |-> IdleCall]
    /\ last = NoExchange
    /\ db = NoDb
    /\ ops = <<[catalog |-> Catalog, listed |-> <<>>]>>

NextCatalog ==
    \/ \E c \in DOMAIN calls, t \in ToolNames : \E a \in ToolArgs(t) : ToolCall(c, t, a)
    \/ \E c \in DOMAIN calls : FactoryResolve(c)
    \/ \E c \in DOMAIN calls : FactoryReject(c)
    \/ \E c \in DOMAIN calls : OperationEnds(c)
    \/ \E c \in DOMAIN calls : Respond(c)
    \/ ListTools(1)

SpecCatalog == InitCatalog /\ [][NextCatalog]_vars

(***************************************************************************)
(* SpecMemo: one server instance with a client factory, its handler        *)
(* invoked concurrently.                                                   *)
(***************************************************************************)
InitMemo ==
    /\ mode = "direct"
    /\ env = EnvOf(Undefined, Undefined, Undefined, Undefined)
    /\ config = Unresolved
    /\ \E u \in WorkerUrls : servers = <<createServer(WorkerOptions(u, Undefined), "direct")>>
    /\ transports = <<>>
    /\ calls = [c \in 1..MaxRaceCalls |-> IdleCall]
    /\ last = NoExchange
    /\ db = NoDb
    /\ ops = <<>>

NextMemo ==
    \/ \E c \in DOMAIN calls, t \in MemoTools : \E a \in ToolArgs(t) : ToolCall(c, t, a)
    \/ \E c \in DOMAIN calls : FactoryResolve(c)
    \/ \E c \in DOMAIN calls : FactoryReject(c)
    \/ \E c \in DOMAIN calls : OperationEnds(c)
    \/ \E c \in DOMAIN calls : Respond(c)

SpecMemo == InitMemo /\ [][NextMemo]_vars

(***************************************************************************)
(* SpecEntry: the process as each entry point runs it.                     *)
(***************************************************************************)
InitEntry ==
    /\ mode \in {"stdio", "http", "worker"}
    /\ env \in StartEnvs
    /\ config = Unresolved
    /\ servers = <<>>
    /\ transports = <<>>
    /\ calls = [c \in 1..MaxEntryCalls |-> IdleCall]
    /\ last = NoExchange
    /\ db = NoDb
    /\ ops = <<>>

NextEntry ==
    \/ startStdio
    \/ \E q \in Queries : PostInitialize(q, MaxServers)
    \/ \E q \in Queries, sid \in DOMAIN transports, c \in DOMAIN calls, t \in EntryTools :
          \E a \in ToolArgs(t) : FirstIdle(c) /\ PostToolCall(q, sid, c, t, a)
    \/ \E sid \in DOMAIN transports : TransportClose(sid)
    \/ Sigint
    \/ \E c \in DOMAIN calls, t \in EntryTools :
          \E a \in ToolArgs(t) : FirstIdle(c) /\ StdioToolCall(c, t, a)
    \/ \E u \in WorkerUrls : WorkerFetch(u, Undefined, MaxServers)
    \/ \E c \in DOMAIN calls, s \in 1..Len(servers), t \in EntryTools :
          \E a \in ToolArgs(t) : FirstIdle(c) /\ WorkerToolCall(c, s, t, a)
    \/ \E s \in 1..Len(servers) : WorkerReturn(s)
    \/ \E c \in DOMAIN calls : mode # "exited" /\ FactoryResolve(c)
    \/ \E c \in DOMAIN calls : mode # "exited" /\ FactoryReject(c)
    \/ \E c \in DOMAIN calls : mode # "exited" /\ OperationEnds(c)
    \/ \E c \in DOMAIN calls : mode # "exited" /\ Respond(c)

SpecEntry == InitEntry /\ [][NextEntry]_vars

(***************************************************************************)
(* SpecHttp: the /mcp routes of startHttp, every request with its          *)
(* response.                                                               *)
(***************************************************************************)
\* The headers requests carry; SessionId(MaxSessions + 1) is never issued.
Headers == {NoHeader, InheritedKey} \cup {SessionId(n) : n \in 1..(MaxSessions + 1)}

Bodies == {"initialize", "tools/call"}

InitHttp ==
    /\ mode = "http"
    /\ env \in StartEnvs
    /\ config = Unresolved
    /\ servers = <<>>
    /\ transports = <<>>
    /\ calls = <<IdleCall>>
    /\ last = NoExchange
    /\ db = NoDb
    /\ ops = <<>>

NextHttp ==
    \/ \E q \in Queries, h \in Headers, b \in Bodies, c \in DOMAIN calls, t \in EntryTools :
          \E a \in ToolArgs(t) : PostMcp(q, h, b, c, t, a, MaxSessions)
    \/ \E h \in Headers : GetMcp(h)
    \/ \E h \in Headers : DeleteMcp(h)
    \/ \E sid \in DOMAIN transports : TransportClose(sid)
    \/ Sigint
    \/ \E c \in DOMAIN calls : mode # "exited" /\ Respond(c)

SpecHttp == InitHttp /\ [][NextHttp]_vars

(***************************************************************************)
(* SpecOrigin: the /mcp routes of SpecHttp, with a record of the           *)
(* environment the process started with and of the query parameters of the *)
(* POST served last.                                                       *)
(***************************************************************************)
NoQuery == [url |-> Undefined, authToken |-> Undefined, dbPath |-> Undefined]

\* A POST to /mcp whose query parameters are recorded.
PostMcpFrom(q, h, body, c, toolName, args, maxServers) ==
    /\ HandlePost(q, h, body, c, toolName, args, maxServers)
    /\ ops' = <<[ops[1] EXCEPT !.query = q]>>

InitOrigin ==
    /\ mode = "http"
    /\ env \in StartEnvs
    /\ config = Unresolved
    /\ servers = <<>>
    /\ transports = <<>>
    /\ calls = <<IdleCall>>
    /\ last = NoExchange
    /\ db = NoDb
    /\ ops = <<[startup |-> env, query |-> NoQuery]>>

NextOrigin ==
    \/ \E q \in Queries, h \in Headers, b \in Bodies, c \in DOMAIN calls, t \in EntryTools :
          \E a \in ToolArgs(t) : PostMcpFrom(q, h, b, c, t, a, MaxSessions)
    \/ \E h \in Headers : GetMcp(h)
    \/ \E h \in Headers : DeleteMcp(h)
    \/ \E sid \in DOMAIN transports : TransportClose(sid)
    \/ Sigint
    \/ \E c \in DOMAIN calls : mode # "exited" /\ Respond(c)

SpecOrigin == InitOrigin /\ [][NextOrigin]_vars

(***************************************************************************)
(* SpecDb: one client, local or remote, its query, execute and runScript   *)
(* called on one database.  A call of the local client has finished when   *)
(* the next one starts; two calls of the remote client may be in flight.   *)
(***************************************************************************)
Rows == {1, 2}

Statements == {Insert(1), InsertReturning(1), Select, Delete, Commit, Bad}

\* The texts given to runScript.  Transaction control inside a batch is
\* left out for the remote engine.
LocalSegments == {Insert(n) : n \in Rows} \cup {Commit, Bad, Blank}
RemoteSegments == LocalSegments \ {Commit}

Scripts(segments, maxLen) == UNION {[1..n -> segments] : n \in 1..maxLen}

OpSlots == 1..2

FirstIdleOp(o) ==
    /\ ops[o].pc = "idle"
    /\ \A x \in DOMAIN ops : x < o => ops[x].pc # "idle"

InitDb ==
    /\ mode = "direct"
    /\ env = EnvOf(Undefined, Undefined, Undefined, Undefined)
    /\ config = Unresolved
    /\ servers = <<>>
    /\ transports = <<>>
    /\ calls = <<>>
    /\ last = NoExchange
    /\ db \in {[NoDb EXCEPT !.impl = i] : i \in {"local", "remote"}}
    /\ ops = [o \in OpSlots |-> IdleOp]

NextDb ==
    \/ \E op \in {"query", "execute"}, st \in Statements : SqliteClientCall(1, op, <<st>>)
    \/ \E sql \in Scripts(LocalSegments, MaxScriptLen) : SqliteClientCall(1, "runScript", sql)
    \/ \E o \in OpSlots, op \in {"query", "execute"}, st \in Statements :
          FirstIdleOp(o) /\ LibSqlClientCall(o, op, <<st>>)
    \/ \E o \in OpSlots, sql \in Scripts(RemoteSegments, MaxBatchLen) :
          FirstIdleOp(o) /\ LibSqlClientCall(o, "runScript", sql)
    \/ \E o \in OpSlots : LibSqlClientSettle(o)
    \/ \E o \in OpSlots : OpReturn(o)

SpecDb == InitDb /\ [][NextDb]_vars

(***************************************************************************)
(* SpecSql: one call of an operation that builds SQL, of either client,   *)
(* on one of the argument bags below; a createIndex call may instead be    *)
(* made through the sqlite_create_index tool.                              *)
(***************************************************************************)
TableNames == {"t", "a\"b"}
ColumnNames == {"a", "b"}

ColumnLists == UNION {[1..n -> ColumnNames] : n \in 1..MaxColumns}

ColumnDefinitions ==
    {[name |-> n, type |-> "INTEGER", primaryKey |-> k, notNull |-> FALSE,
      unique |-> FALSE, default |-> d] :
        n \in ColumnNames, k \in BOOLEAN, d \in {JUndef, JStr("x"), JNum(0)}}

SqlOps ==
    {"query", "execute", "listTables", "describeTable", "listIndexes", "listForeignKeys",
     "createTable", "alterTable", "dropTable", "createIndex", "dropIndex"}

SqlArgs(op) ==
    CASE op \in {"query", "execute"} ->
            {[sql |-> "SELECT * FROM t WHERE id = ?", params |-> <<"1">>],
             [sql |-> "DELETE FROM t", params |-> <<>>]}
      [] op = "listTables" -> {[found |-> f] : f \in {<<>>, <<"t">>, <<"t", "a\"b">>}}
      [] op \in {"describeTable", "listIndexes", "listForeignKeys"} ->
            {[table |-> t] : t \in TableNames}
      [] op = "createTable" ->
            {[table |-> t, columns |-> c, ifNotExists |-> e] :
                t \in TableNames,
                c \in UNION {[1..n -> ColumnDefinitions] : n \in 1..MaxColumns},
                e \in BOOLEAN}
      [] op = "alterTable" ->
            {[table |-> t, action |-> "add_column", column |-> c, type |-> "TEXT",
              notNull |-> n, default |-> d] :
                t \in TableNames, c \in ColumnNames, n \in BOOLEAN,
                d \in {JUndef, JStr("x")}}
            \cup {[table |-> t, action |-> "rename_column", oldName |-> "a", newName |-> c] :
                    t \in TableNames, c \in ColumnNames}
            \cup {[table |-> t, action |-> "rename_table", newTableName |-> u] :
                    t \in TableNames, u \in TableNames}
      [] op = "dropTable" -> {[table |-> t, ifExists |-> e] : t \in TableNames, e \in BOOLEAN}
      [] op = "createIndex" ->
            {[table |-> t, columns |-> c, unique |-> u, ifNotExists |-> e] :
                t \in TableNames, c \in ColumnLists, u \in BOOLEAN, e \in BOOLEAN}
            \cup {[table |-> t, columns |-> c, indexName |-> x, unique |-> u,
                   ifNotExists |-> FALSE] :
                    t \in TableNames, c \in ColumnLists, x \in {"", "ix"}, u \in BOOLEAN}
      [] op = "dropIndex" -> {[indexName |-> "ix", ifExists |-> e] : e \in BOOLEAN}

InitSql ==
    /\ mode = "direct"
    /\ env = EnvOf(Undefined, Undefined, Undefined, Undefined)
    /\ config = Unresolved
    /\ servers = <<>>
    /\ transports = <<>>
    /\ calls = <<>>
    /\ last = NoExchange
    /\ db = NoDb
    /\ ops \in {<<AskedSql(impl, op_args[1], op_args[2])>> :
                    impl \in {"local", "remote"},
                    op_args \in UNION {{<<op, args>> : args \in SqlArgs(op)} : op \in SqlOps}}

NextSql ==
    \/ ClientBuildsSql
    \/ CreateIndexTool

SpecSql == InitSql /\ [][NextSql]_vars

(***************************************************************************)
(* SpecSchema: one client, local or remote, on a catalog; the five         *)
(* schema-changing tools and sqlite_list_tables are called on it in any    *)
(* order.                                                                  *)
(***************************************************************************)
PlainColumn(name) ==
    [name |-> name, type |-> "INTEGER", primaryKey |-> FALSE, notNull |-> FALSE,
     unique |-> FALSE, default |-> JUndef]

SchemaTables == {"t", "u"}

SchemaArgs(toolName) ==
    CASE toolName = "sqlite_create_table" ->
            {[table |-> t, columns |-> <<PlainColumn("a")>>, ifNotExists |-> e] :
                t \in SchemaTables, e \in BOOLEAN}
      [] toolName = "sqlite_drop_table" ->
            {[table |-> t, ifExists |-> e] : t \in SchemaTables, e \in BOOLEAN}
      [] toolName = "sqlite_create_index" ->
            {[table |-> "t", columns |-> <<"a">>, unique |-> FALSE, ifNotExists |-> e] :
                e \in BOOLEAN}
            \cup {[table |-> t, columns |-> <<"a">>, indexName |-> "ix", unique |-> TRUE,
                   ifNotExists |-> e] :
                    t \in SchemaTables, e \in BOOLEAN}
      [] toolName = "sqlite_drop_index" ->
            {[indexName |-> x, ifExists |-> e] : x \in {"ix", "idx_t_a"}, e \in BOOLEAN}
      [] toolName = "sqlite_alter_table" ->
            {[table |-> "t", action |-> a, column |-> "b", type |-> "TEXT", notNull |-> n,
              default |-> d, oldName |-> "a", newName |-> "c", newTableName |-> "u"] :
                a \in KnownAlterActions \cup {"drop_column"},
                n \in {FALSE},
                d \in {JUndef, JStr("x")}}
            \cup {[table |-> "t", action |-> "add_column", column |-> "b", type |-> "TEXT",
                   notNull |-> TRUE, default |-> JUndef, oldName |-> "a", newName |-> "c",
                   newTableName |-> "u"]}

\* The catalogs a run starts from.
FullCatalog ==
    {TableObj("t", {"a"}, 0), TableObj("B", {"a"}, 3),
     ViewObj("v", 2, TRUE), ViewObj("w", 0, FALSE), IndexObj("ix", "t"),
     TableObj("sqlite_sequence", {"name", "seq"}, 1),
     TableObj("sqlitex", {"a"}, 1),
     TableObj("_litestream_seq", {"a"}, 2)}

StartCatalogs == {{}, FullCatalog}

InitSchema ==
    /\ mode = "direct"
    /\ env = EnvOf(Undefined, Undefined, Undefined, Undefined)
    /\ config = Unresolved
    /\ servers = <<>>
    /\ transports = <<>>
    /\ calls = <<>>
    /\ last = NoExchange
    /\ \E i \in {"local", "remote"}, d \in StartCatalogs :
          db = [impl |-> i, data |-> d, torn |-> FALSE]
    /\ ops = <<>>

NextSchema ==
    \/ \E t \in SchemaTools : \E a \in SchemaArgs(t) : SchemaToolCall(t, a)
    \/ ListTablesToolCall

SpecSchema == InitSchema /\ [][NextSchema]_vars

(***************************************************************************)
(* SpecDispatch: handleToolCall called directly, with every catalog name   *)
(* and with names outside the catalog.                                     *)
(***************************************************************************)
\* handleToolCall is entered: the switch selects a case, whose client
\* operation is invoked, or the default case throws.
DispatchCall ==
    /\ Len(ops) = 1
    /\ ops[1].pc = "asked"
    /\ ops' = <<IF ClientOp(ops[1].tool) = "unknown"
                THEN [ops[1] EXCEPT !.pc = "done",
                                    !.result = handleToolCall(ops[1].tool, ops[1].args,
                                                              Returned(JUndef))]
                ELSE [ops[1] EXCEPT !.pc = "awaitOp",
                                    !.invoked = <<ClientOp(ops[1].tool)>>]>>
    /\ UNCHANGED <<env, mode, config, servers, transports, calls, last, db>>

\* The invoked client operation settles and handleToolCall returns or throws.
DispatchSettles ==
    /\ Len(ops) = 1
    /\ ops[1].pc = "awaitOp"
    /\ \E outcome \in ClientOutcomes(ClientOp(ops[1].tool), ops[1].args) :
          ops' = <<[ops[1] EXCEPT !.pc = "done",
                                  !.result = handleToolCall(ops[1].tool, ops[1].args,
                                                            outcome)]>>
    /\ UNCHANGED <<env, mode, config, servers, transports, calls, last, db>>

OtherNames == {"sqlite_unknown", "SQLITE_QUERY", "constructor", ""}

DispatchArgs(toolName) ==
    IF toolName \in SchemaTools THEN SchemaArgs(toolName) ELSE ToolArgs(toolName)

InitDispatch ==
    /\ mode = "direct"
    /\ env = EnvOf(Undefined, Undefined, Undefined, Undefined)
    /\ config = Unresolved
    /\ servers = <<>>
    /\ transports = <<>>
    /\ calls = <<>>
    /\ last = NoExchange
    /\ db = NoDb
    /\ \E t \in ToolNames \cup OtherNames : \E a \in DispatchArgs(t) :
          ops = <<[pc |-> "asked", tool |-> t, args |-> a, invoked |-> <<>>,
                   result |-> Returned(JUndef)]>>

NextDispatch ==
    \/ DispatchCall
    \/ DispatchSettles

SpecDispatch == InitDispatch /\ [][NextDispatch]_vars

(***************************************************************************)
(* SpecScript: runScript of either client on every text of the alphabet    *)
(* below, up to MaxTextLen characters.                                     *)
(***************************************************************************)
TextChars == {";", " ", "\n", "a", "'"}

Texts == UNION {[1..n -> TextChars] : n \in 0..MaxTextLen}

InitScript ==
    /\ mode = "direct"
    /\ env = EnvOf(Undefined, Undefined, Undefined, Undefined)
    /\ config = Unresolved
    /\ servers = <<>>
    /\ transports = <<>>
    /\ calls = <<>>
    /\ last = NoExchange
    /\ db = NoDb
    /\ \E i \in {"local", "remote"}, t \in Texts :
          ops = <<[pc |-> "asked", impl |-> i, text |-> t, threw |-> FALSE,
                   executed |-> <<>>, statementsRun |-> 0]>>

NextScript ==
    \/ \E failAt \in 0..MaxTextLen : SqliteClientRunsText(failAt)
    \/ \E fails \in BOOLEAN : LibSqlClientRunsText(fails)

SpecScript == InitScript /\ [][NextScript]_vars

(***************************************************************************)
(* Claims checked under Spec.                                              *)
(***************************************************************************)
Done(c) == calls[c].pc = "done"

WellFormed(e) ==
    /\ Len(e.content) = 1
    /\ e.content[1].type = "text"
    /\ e.isError \in BOOLEAN

\* C1: every finished invocation of the registered handler has returned one
\* envelope {content: [{type: "text", text}], isError}, whatever the client
\* did; when the client operation threw (an engine error or the unknown
\* alter action) or the factory rejected, the envelope has isError = true.
C1_AlwaysOneEnvelope ==
    \A c \in DOMAIN calls :
        Done(c) =>
            /\ WellFormed(calls[c].envelope)
            /\ calls[c].outcome \in {"threw", "factoryRejected"} => calls[c].envelope.isError

\* C1 witness: the unknown alter action was thrown and came back as an error envelope.
C1_Witness ==
    \E c \in DOMAIN calls :
        /\ Done(c)
        /\ calls[c].outcome = "threw"
        /\ calls[c].envelope = Envelope("Error: Unknown alter action: drop_column", TRUE)

\* C2 (as claimed): whenever the client operation completed without raising,
\* the envelope has isError = false and its text is the JSON serialization
\* of the result, also for an execute result whose lastInsertRowid is a bigint.
C2_SuccessIsSerialized ==
    \A c \in DOMAIN calls :
        (Done(c) /\ calls[c].outcome = "returned") =>
            /\ ~calls[c].envelope.isError
            /\ calls[c].envelope.content[1].text = Serialize(calls[c].value, 0)

\* C3: on a server created without options, every invocation, of any tool,
\* is finished at once with the not-configured error envelope; no factory
\* is called, no client exists, no client operation runs, and the server
\* stays open for the next call.
C3_NotConfigured ==
    \A c \in DOMAIN calls :
        (calls[c].pc # "idle" /\ servers[calls[c].server].opts = NoOptions) =>
            /\ Done(c)
            /\ calls[c].envelope = Envelope(NotConfiguredText, TRUE)
            /\ calls[c].outcome = "none"
            /\ calls[c].client = 0
            /\ servers[calls[c].server].client = 0
            /\ servers[calls[c].server].made = 0
            /\ servers[calls[c].server].open

\* C3 witness: the last tool of the catalog answered not-configured.
C3_Witness ==
    \E c \in DOMAIN calls :
        /\ Done(c)
        /\ servers[calls[c].server].opts = NoOptions
        /\ calls[c].tool = TOOLS[Len(TOOLS)]
        /\ calls[c].envelope.isError

(***************************************************************************)
(* Claims checked under SpecConfig.                                        *)
(***************************************************************************)
\* A variable is present when it is set to a non-empty string.
UrlPresent == Truthy(env.SQLITE_DB_URL)
PathPresent == Truthy(env.SQLITE_DB_PATH)

\* C5: with a remote URL present (and in particular with both a URL and a
\* local path present) getConfig() selects the remote target (url,
\* authToken) and never the local one; the local path is selected only
\* when no URL is present; null is returned only when neither is present.
C5_RemoteWins ==
    config # Unresolved =>
        /\ UrlPresent =>
              config = [url |-> env.SQLITE_DB_URL, authToken |-> env.SQLITE_AUTH_TOKEN]
        /\ "dbPath" \in DOMAIN config =>
              (~UrlPresent /\ PathPresent /\ config.dbPath = env.SQLITE_DB_PATH)
        /\ config = NoConfig <=> (~UrlPresent /\ ~PathPresent)

\* C5 witness: both targets are configured and the remote one was selected.
C5_Witness ==
    /\ UrlPresent
    /\ PathPresent
    /\ "url" \in DOMAIN config
    /\ config.url = env.SQLITE_DB_URL

(***************************************************************************)
(* Claims checked under SpecMemo.                                          *)
(***************************************************************************)
Starts(c) == calls[c].pc = "idle" /\ calls'[c].pc # "idle"

\* C6 (as claimed): once the instance holds a memoized client, that client
\* is the one every later invocation uses: it is never replaced, no further
\* client is created, and an invocation that starts calls the operation on
\* it without calling the factory.
C6_MemoizedClientKept ==
    [][servers[1].client # 0 =>
          /\ servers'[1].client = servers[1].client
          /\ servers'[1].made = servers[1].made
          /\ \A c \in DOMAIN calls :
                Starts(c) => (calls'[c].pc = "awaitOp" /\ calls'[c].client = servers[1].client)
      ]_vars

\* C7: a rejected factory call ends its invocation with the connection
\* error envelope, without a client operation and without memoizing
\* anything; an invocation that starts while nothing is memoized calls the
\* factory again, and when the factory then resolves the invocation goes on
\* to its client operation with the new client, which is memoized.
C7_FailedResolutionRetried ==
    [][\A c \in DOMAIN calls :
          /\ (calls[c].pc = "awaitFactory" /\ calls'[c].outcome = "factoryRejected") =>
                /\ calls'[c].pc = "done"
                /\ calls'[c].envelope = Envelope(ConnectErrorText(FactoryError), TRUE)
                /\ calls'[c].client = 0
                /\ servers' = servers
          /\ (Starts(c) /\ servers[1].client = 0) => calls'[c].pc = "awaitFactory"
          /\ (calls[c].pc = "awaitFactory" /\ calls'[c].outcome # "factoryRejected"
                /\ calls'[c] # calls[c]) =>
                /\ calls'[c].pc = "awaitOp"
                /\ calls'[c].client = servers'[1].client
                /\ calls'[c].client > servers[1].made
      ]_vars

\* C7 witness: one invocation ended with the connection error, and another,
\* started no earlier than it, resolved a client and finished normally.
C7_Witness ==
    /\ Done(1)
    /\ calls[1].outcome = "factoryRejected"
    /\ Done(2)
    /\ calls[2].outcome = "returned"
    /\ ~calls[2].envelope.isError
    /\ servers[1].client = calls[2].client

\* C8 (as claimed): the factory of one instance produces at most one client.
C8_AtMostOneClient ==
    \A s \in 1..Len(servers) : servers[s].made <= 1

\* C15 (as claimed): calls of one session are processed in arrival order,
\* so a call's client operation does not start before the operation of a
\* call that arrived earlier has completed: two invocations on one server
\* never have their client operations in progress together.
C15_OneOperationAtATime ==
    \A c \in DOMAIN calls, d \in DOMAIN calls :
        (c # d /\ calls[c].server = calls[d].server)
        => ~(calls[c].pc = "awaitOp" /\ calls[d].pc = "awaitOp")

(***************************************************************************)
(* Claims checked under SpecEntry.                                         *)
(***************************************************************************)
\* The target a server's options name: the factory's URL, or the URL or
\* path of a getConfig() result; "" when they name none.
TargetOf(opts) ==
    IF HasFactory(opts) THEN opts.clientFactory.url
    ELSE IF "url" \in DOMAIN opts THEN opts.url
    ELSE IF "dbPath" \in DOMAIN opts THEN opts.dbPath
    ELSE ""

\* C4 (as claimed): in stdio and HTTP mode a tool call is answered with the
\* not-configured error only on a server that was created while neither
\* SQLITE_DB_URL nor SQLITE_DB_PATH was set.
C4_ConfiguredServerResolves ==
    \A c \in DOMAIN calls :
        (/\ Done(c)
         /\ servers[calls[c].server].origin \in {"stdio", "http"}
         /\ calls[c].envelope = Envelope(NotConfiguredText, TRUE))
        => TargetOf(servers[calls[c].server].opts) = ""

\* C9 (as claimed): two sessions whose options name the same target never
\* hold a client each.
C9_OneClientPerTarget ==
    \A s1 \in 1..Len(servers), s2 \in 1..Len(servers) :
        (/\ s1 # s2
         /\ TargetOf(servers[s1].opts) # ""
         /\ TargetOf(servers[s1].opts) = TargetOf(servers[s2].opts))
        => ~(servers[s1].made > 0 /\ servers[s2].made > 0)

\* The first half of C10, which holds: a server is created without a client,
\* and the only step that creates one is an invocation's factory call
\* resolving.
C10_CreatedOnlyByInvocation ==
    [][\A s \in 1..Len(servers') :
          IF s > Len(servers) THEN servers'[s].made = 0
          ELSE servers'[s].made # servers[s].made =>
                  \E c \in DOMAIN calls :
                      /\ calls[c].server = s
                      /\ calls[c].pc = "awaitFactory"
                      /\ calls'[c].pc = "awaitOp"
      ]_vars

\* C10 (as claimed): once a server's transport has closed, the request it
\* served has returned or the process has exited, every client its factory
\* produced has been closed.
C10_ClosedAfterTeardown ==
    \A s \in 1..Len(servers) :
        ~servers[s].open => servers[s].closed = 1..servers[s].made

(***************************************************************************)
(* Claims checked under SpecHttp.                                          *)
(***************************************************************************)
\* This step served a request to /mcp.
Served == last'.n # last.n

\* The request just served bore no identifier of a live session and was not
\* an initialization POST.
NoLiveSession ==
    /\ Served
    /\ Lookup(last'.header) # "transport"
    /\ last'.method = "POST" => last'.body # "initialize"

\* The sessions that were initialized and have closed.
ClosedSessions == (1..Len(servers)) \ DOMAIN transports

\* C11 (as claimed): a POST that is not an initialization, or a GET or
\* DELETE, bearing a missing or unknown session identifier is answered 400
\* by the route itself; no session is created, no transport is invoked, no
\* tool handler starts and the live mapping is unchanged.
C11_UnknownSessionRejected ==
    [][NoLiveSession =>
          /\ last'.status = 400
          /\ last'.by = "route"
          /\ transports' = transports
          /\ servers' = servers
          /\ calls' = calls
      ]_vars

\* The part of C11 that holds for every identifier: such a request creates
\* no session, reaches no transport and starts no tool handler.
C11_RejectedChangesNothing ==
    [][NoLiveSession =>
          /\ last'.by # "transport"
          /\ transports' = transports
          /\ servers' = servers
          /\ calls' = calls
      ]_vars

\* C12: an initialization POST without a session identifier appends a fresh
\* server (no client yet) and adds exactly one entry to the live mapping,
\* under an identifier no session, live or closed, ever had; the existing
\* entries and servers are untouched.
C12_InitializeAddsOneSession ==
    [][(Served /\ last'.method = "POST" /\ last'.body = "initialize"
          /\ last'.header = NoHeader) =>
          \E sid \in DOMAIN transports' :
              /\ sid \notin DOMAIN transports
              /\ sid \notin ClosedSessions
              /\ DOMAIN transports' = DOMAIN transports \cup {sid}
              /\ \A x \in DOMAIN transports : transports'[x] = transports[x]
              /\ Len(servers') = Len(servers) + 1
              /\ transports'[sid] = Len(servers')
              /\ \A x \in DOMAIN transports : transports'[x] # transports'[sid]
              /\ servers'[Len(servers')].client = 0
              /\ servers'[Len(servers')].open
              /\ \A i \in 1..Len(servers) : servers'[i] = servers[i]
      ]_vars

\* C12 witness: a second session was just initialized beside a live one.
C12_Witness ==
    /\ DOMAIN transports = {1, 2}
    /\ last.method = "POST"
    /\ last.body = "initialize"
    /\ last.by = "transport"

\* C13: when a session's transport closes its entry, and only its entry,
\* leaves the live mapping; a closed session never comes back; and every
\* later POST, GET or DELETE bearing its identifier is answered 400 by the
\* route without reaching a transport.
C13_ClosedSessionStaysClosed ==
    [][/\ \A sid \in DOMAIN transports :
             ~servers'[transports[sid]].open => sid \notin DOMAIN transports'
       /\ \A sid \in DOMAIN transports :
             (sid \notin DOMAIN transports' /\ mode' = "http") =>
                 /\ DOMAIN transports' = DOMAIN transports \ {sid}
                 /\ \A x \in DOMAIN transports' : transports'[x] = transports[x]
       /\ \A sid \in ClosedSessions : sid \notin DOMAIN transports'
       /\ (Served /\ last'.header.kind = "uuid" /\ last'.header.id \in ClosedSessions) =>
             /\ last'.status = 400
             /\ last'.by = "route"
             /\ transports' = transports
             /\ calls' = calls
      ]_vars

\* C13 witness: session 1 has closed while session 2 lives, and a request
\* bearing the identifier of session 1 was rejected.
C13_Witness ==
    /\ 1 \in ClosedSessions
    /\ 2 \in DOMAIN transports
    /\ last.header = SessionId(1)
    /\ last.status = 400

\* C14 (as claimed): a DELETE bearing the identifier of an already closed
\* session leaves the live mapping unchanged and is not answered by the
\* route with an error of its own: the response is left to the transport.
C14_SecondTerminationIgnored ==
    [][(Served /\ last'.method = "DELETE" /\ last'.header.kind = "uuid"
          /\ last'.header.id \in ClosedSessions) =>
          /\ transports' = transports
          /\ last'.by = "transport"
          /\ last'.status # 400
      ]_vars

(***************************************************************************)
(* Claims checked under SpecDb.                                            *)
(***************************************************************************)
Finished(o) == ops[o].pc = "done"

\* The rows the statements of a script insert.
InsertedRows(sql) ==
    {sql[i].row : i \in {j \in 1..Len(sql) : sql[j].kind \in {"insert", "insertReturning"}}}

\* The call in slot o was all or nothing: it failed and left the data as
\* they were, or it returned, counted every statement and left the effects
\* of all of them.
AllOrNothing(o) ==
    IF ops[o].threw THEN ops[o].after = ops[o].before
    ELSE /\ ops[o].run = Len(SplitStatements(ops[o].sql))
         /\ ops[o].after = ops[o].before \cup InsertedRows(ops[o].sql)

\* C16 (as claimed): runScript is atomic in the local and in the remote
\* client: when a statement fails the call fails and the data are as before
\* the call; when none fails the effects of all statements are committed.
C16_RunScriptAtomic ==
    \A o \in DOMAIN ops :
        (Finished(o) /\ ops[o].op = "runScript") => AllOrNothing(o)

\* What holds of C16: runScript is all or nothing for every script that has
\* no transaction control statement of its own.
C16_AtomicWithoutCommit ==
    \A o \in DOMAIN ops :
        (/\ Finished(o)
         /\ ops[o].op = "runScript"
         /\ \A i \in 1..Len(ops[o].sql) : ops[o].sql[i].kind # "commit")
        => AllOrNothing(o)

\* C17 (as claimed): no call on the client runs on, or observes, data in
\* which only some of the statements of a script have taken effect.
C17_NoPartialScriptObserved ==
    \A o \in DOMAIN ops : Finished(o) => ~ops[o].sawTorn

\* C19 (as claimed): a query call leaves the data exactly as they were,
\* whether it returns rows or fails, in the local and in the remote client.
C19_QueryReadOnly ==
    \A o \in DOMAIN ops :
        (Finished(o) /\ ops[o].op = "query") => ops[o].after = ops[o].before

(***************************************************************************)
(* Claims checked under SpecSql.                                           *)
(***************************************************************************)
\* Piece i of the text lies between an opening and a closing double quote.
InsideQuotes(text, i) ==
    /\ Cardinality({j \in 1..(i - 1) : text[j] = DQ}) % 2 = 1
    /\ \E j \in (i + 1)..Len(text) : text[j] = DQ

\* The operations that interpolate the table name they are given.
NamesTable ==
    {"describeTable", "listIndexes", "listForeignKeys", "createTable", "alterTable",
     "dropTable", "createIndex"}

\* C18: in every SQL text the schema operations of either client build, each
\* interpolated table, column or index name lies inside a pair of double
\* quotes (and the table name the operation was given is there); query and
\* execute hand over the caller's SQL unchanged with the caller's values as
\* bound parameters, and describeTable's schema lookup is a fixed text with
\* the table name as its one parameter.
C18_IdentifiersQuoted ==
    (ops # <<>> /\ ops[1].pc # "asked") =>
        LET o == ops[1] IN
        /\ \A k \in 1..Len(o.statements) :
              \A i \in 1..Len(o.statements[k].text) :
                  o.statements[k].text[i].from = "name" =>
                      InsideQuotes(o.statements[k].text, i)
        /\ o.op \in NamesTable =>
              \E i \in 1..Len(o.statements[1].text) :
                  /\ o.statements[1].text[i] = Name(o.args.table)
                  /\ o.statements[1].text[i - 1] = DQ
                  /\ o.statements[1].text[i + 1] = DQ
        /\ o.op \in {"query", "execute"} =>
              /\ o.statements = <<Stmt(<<[s |-> o.args.sql, from |-> "sql"]>>, o.args.params)>>
        /\ o.op = "describeTable" =>
              /\ \A i \in 1..Len(o.statements[2].text) : o.statements[2].text[i].from = "text"
              /\ o.statements[2].params = <<o.args.table>>

\* C18 witness: dropTable built its text for a table name.
C18_Witness ==
    /\ ops # <<>>
    /\ ops[1].pc = "built"
    /\ ops[1].op = "dropTable"
    /\ ops[1].args.table = "t"
    /\ ops[1].args.ifExists

\* The index name in the CREATE INDEX text: its first interpolated name.
UsedIndexName(text) ==
    text[CHOOSE i \in 1..Len(text) :
            text[i].from = "name" /\ \A j \in 1..(i - 1) : text[j].from # "name"].s

LastCall == ops[Len(ops)]

OfType(data, name, type) == \E o \in data : o.name = name /\ o.type = type

\* The call was answered with a success envelope and left the catalog as it was.
SucceededUnchanged == ~LastCall.envelope.isError /\ db.data = LastCall.before
\* The call was answered with an error envelope and left the catalog as it was.
FailedUnchanged == LastCall.envelope.isError /\ db.data = LastCall.before

\* The flag decides between the two.
Suppresses(flag) == IF flag THEN SucceededUnchanged ELSE FailedUnchanged

\* C21: sqlite_drop_table and sqlite_drop_index on a name no object has, and
\* sqlite_create_table on an existing table and sqlite_create_index (on an
\* existing table) under the name of an existing index, return a success
\* envelope with the flag (ifExists / ifNotExists) and an error envelope
\* without it, and leave the catalog unchanged either way.
C21_ConditionalVariants ==
    ops # <<>> =>
        LET c == LastCall IN
        /\ (c.tool = "sqlite_drop_table" /\ Named(c.before, c.args.table) = {})
              => Suppresses(c.args.ifExists)
        /\ (c.tool = "sqlite_drop_index" /\ Named(c.before, c.args.indexName) = {})
              => Suppresses(c.args.ifExists)
        /\ (c.tool = "sqlite_create_table" /\ OfType(c.before, c.args.table, "table"))
              => Suppresses(c.args.ifNotExists)
        /\ (/\ c.tool = "sqlite_create_index"
            /\ OfType(c.before, c.args.table, "table")
            /\ OfType(c.before,
                      IndexName(c.args.table, c.args.columns, Opt(c.args, "indexName")),
                      "index"))
              => Suppresses(c.args.ifNotExists)

\* C21 witness: sqlite_drop_index with ifExists on a name no object has was
\* answered with a success envelope.
C21_Witness ==
    /\ ops # <<>>
    /\ LastCall.tool = "sqlite_drop_index"
    /\ LastCall.args.ifExists
    /\ Named(LastCall.before, LastCall.args.indexName) = {}
    /\ LastCall.before # {}
    /\ ~LastCall.envelope.isError

\* C22: sqlite_list_tables succeeds; its entries are in name order; every
\* entry carries the row count of the object it names (the empty table t
\* gives 0, the 3-row table B gives 3), except that an entry whose count
\* query fails carries 0.
C22_ListTablesCounts ==
    (ops # <<>> /\ LastCall.tool = "sqlite_list_tables") =>
        LET l == LastCall.listed IN
        /\ ~LastCall.envelope.isError
        /\ LastCall.envelope.content[1].text = JSONstringify(ListTablesValue(l)).text
        /\ \A i, j \in 1..Len(l) : i < j => Before(Chars(l[i].name), Chars(l[j].name))
        /\ \A i \in 1..Len(l) :
              \E o \in LastCall.before :
                  /\ o.name = l[i].name
                  /\ o.type = l[i].type
                  /\ l[i].rowCount = IF o.counts THEN o.rows ELSE 0
        /\ (TableObj("t", {"a"}, 0) \in LastCall.before /\ TableObj("B", {"a"}, 3) \in LastCall.before)
              => \E i, j \in 1..Len(l) :
                    /\ i < j
                    /\ l[i].name = "B" /\ l[i].rowCount = 3
                    /\ l[j].name = "t" /\ l[j].rowCount = 0

\* C22 witness: a listing that holds the 3-row table with 3, the empty table
\* with 0, and a view whose count query failed with 0.
C22_Witness ==
    /\ ops # <<>>
    /\ LastCall.tool = "sqlite_list_tables"
    /\ ~LastCall.envelope.isError
    /\ \E i, j, k \in 1..Len(LastCall.listed) :
          /\ LastCall.listed[i].name = "B" /\ LastCall.listed[i].rowCount = 3
          /\ LastCall.listed[j].name = "t" /\ LastCall.listed[j].rowCount = 0
          /\ LastCall.listed[k].name = "w" /\ LastCall.listed[k].rowCount = 0
          /\ ViewObj("w", 0, FALSE) \in LastCall.before

\* The name starts with the characters of `prefix`, taken literally.
HasPrefix(name, prefix) ==
    /\ Len(name) >= Len(prefix)
    /\ SubSeq(name, 1, Len(prefix)) = prefix

EngineNamespace == <<"s", "q", "l", "i", "t", "e", "_">>
ReplicationNamespace == <<"_", "l", "i", "t", "e", "s", "t", "r", "e", "a", "m", "_">>

\* The tables and views of a catalog outside the two internal namespaces.
UserObjects(data) ==
    {o.name : o \in {x \in data :
        /\ x.type \in {"table", "view"}
        /\ ~HasPrefix(Chars(x.name), EngineNamespace)
        /\ ~HasPrefix(Chars(x.name), ReplicationNamespace)}}

\* C23: with either client, sqlite_list_tables lists exactly the tables and
\* views whose name starts neither with sqlite_ nor with _litestream_.
C23_ListsExactlyUserObjects ==
    (ops # <<>> /\ LastCall.tool = "sqlite_list_tables") =>
        {LastCall.listed[i].name : i \in 1..Len(LastCall.listed)}
            = UserObjects(LastCall.before)

\* Where the remote client differs from C23 only by the LIKE wildcard: it
\* lists the user objects except those a pattern matches beyond its prefix.
C23_RemoteListsNoInternalObject ==
    (ops # <<>> /\ LastCall.tool = "sqlite_list_tables" /\ db.impl = "remote") =>
        {LastCall.listed[i].name : i \in 1..Len(LastCall.listed)}
            \subseteq UserObjects(LastCall.before)

\* The caller's values a statement holds: its names, types and defaults.
ValuesIn(stmt) ==
    {stmt.text[i].s : i \in {k \in 1..Len(stmt.text) : stmt.text[k].from # "text"}}

\* The parameters each known action of alterTable reads.
OwnValues(args) ==
    CASE args.action = "add_column" ->
            {args.table, args.column, args.type}
            \cup (IF args.default = JUndef THEN {} ELSE {args.default.v})
      [] args.action = "rename_column" -> {args.table, args.oldName, args.newName}
      [] args.action = "rename_table" -> {args.table, args.newTableName}

\* C24: sqlite_alter_table with an action outside add_column, rename_column,
\* rename_table sends no statement, leaves the catalog unchanged and is
\* answered with the unknown-action error envelope; with a known action it
\* sends exactly one ALTER TABLE statement, which holds the values of that
\* action's own parameters and of no other parameter.
C24_AlterTableActions ==
    (ops # <<>> /\ LastCall.tool = "sqlite_alter_table") =>
        LET c == LastCall IN
        IF c.args.action \notin KnownAlterActions
        THEN /\ c.statements = <<>>
             /\ db.data = c.before
             /\ c.envelope = Envelope("Error: Unknown alter action: " \o c.args.action, TRUE)
        ELSE /\ Len(c.statements) = 1
             /\ c.statements[1].text[1] = Lit("ALTER TABLE ")
             /\ c.statements[1].params = <<>>
             /\ ValuesIn(c.statements[1]) = OwnValues(c.args)

\* C24 witness: an unknown action was answered with an error envelope on a
\* catalog that holds the table.
C24_Witness ==
    /\ ops # <<>>
    /\ LastCall.tool = "sqlite_alter_table"
    /\ LastCall.args.action = "drop_column"
    /\ OfType(LastCall.before, LastCall.args.table, "table")
    /\ LastCall.envelope.isError
    /\ LastCall.statements = <<>>

(***************************************************************************)
(* Claims checked under SpecCatalog.                                       *)
(***************************************************************************)
\* The names at positions from..to of a catalog.
NamesAt(catalog, from, to) == {catalog[i].name : i \in from..to}

\* C25: the catalog is, in every state, the sequence of 15 definitions the
\* process started with; their names are pairwise distinct and come in the
\* groups query/execute (3), schema inspection (4), schema management (3),
\* index management (2), database management (3); and a tools/list response
\* holds these 15 entries in catalog order, each with the name, description,
\* annotations and inputSchema of its definition.
C25_CatalogFixed ==
    LET catalog == ops[1].catalog
        listed == ops[1].listed IN
    /\ catalog = Catalog
    /\ Len(catalog) = 15
    /\ \A i, j \in 1..Len(catalog) : catalog[i].name = catalog[j].name => i = j
    /\ [i \in 1..Len(catalog) |-> catalog[i].name] = TOOLS
    /\ NamesAt(catalog, 1, 3) = {"sqlite_query", "sqlite_execute", "sqlite_run_script"}
    /\ NamesAt(catalog, 4, 7) = {"sqlite_list_tables", "sqlite_describe_table",
                                 "sqlite_list_indexes", "sqlite_list_foreign_keys"}
    /\ NamesAt(catalog, 8, 10) = {"sqlite_create_table", "sqlite_alter_table",
                                  "sqlite_drop_table"}
    /\ NamesAt(catalog, 11, 12) = {"sqlite_create_index", "sqlite_drop_index"}
    /\ NamesAt(catalog, 13, 15) = {"sqlite_get_info", "sqlite_vacuum",
                                   "sqlite_integrity_check"}
    /\ listed # <<>> =>
          /\ Len(listed) = 15
          /\ \A i \in 1..Len(listed) :
                /\ listed[i].name = catalog[i].name
                /\ listed[i].description = catalog[i].description
                /\ listed[i].annotations = catalog[i].annotations
                /\ listed[i].inputSchema = catalog[i].inputSchema
                /\ DOMAIN listed[i] = {"name", "description", "annotations", "inputSchema"}

\* C25 witness: a tools/list response was given after a tool call had been
\* answered.
C25_Witness ==
    /\ ops[1].listed # <<>>
    /\ \E c \in DOMAIN calls : calls[c].pc = "done"

(***************************************************************************)
(* Claims checked under SpecDispatch.                                      *)
(***************************************************************************)
\* The client operation each catalog name stands for.
Designates ==
    {<<"sqlite_query", "query">>, <<"sqlite_execute", "execute">>,
     <<"sqlite_run_script", "runScript">>, <<"sqlite_list_tables", "listTables">>,
     <<"sqlite_describe_table", "describeTable">>,
     <<"sqlite_list_indexes", "listIndexes">>,
     <<"sqlite_list_foreign_keys", "listForeignKeys">>,
     <<"sqlite_create_table", "createTable">>, <<"sqlite_alter_table", "alterTable">>,
     <<"sqlite_drop_table", "dropTable">>, <<"sqlite_create_index", "createIndex">>,
     <<"sqlite_drop_index", "dropIndex">>, <<"sqlite_get_info", "getInfo">>,
     <<"sqlite_vacuum", "vacuum">>, <<"sqlite_integrity_check", "integrityCheck">>}

UnknownToolError(toolName) == Threw("Unknown tool: " \o toolName)

\* C26: handleToolCall with a name outside the 15 catalog names throws the
\* unknown-tool error and invokes no client operation; with a catalog name it
\* invokes exactly one client operation, the one the name designates, and
\* never ends in the unknown-tool error.
C26_DispatchClosed ==
    LET c == ops[1] IN
    c.pc # "asked" =>
        IF c.tool \notin NamesAt(Catalog, 1, Len(Catalog))
        THEN /\ c.pc = "done"
             /\ c.invoked = <<>>
             /\ c.result = UnknownToolError(c.tool)
        ELSE /\ Len(c.invoked) = 1
             /\ <<c.tool, c.invoked[1]>> \in Designates
             /\ c.pc = "done" => c.result # UnknownToolError(c.tool)

\* C26 witness: sqlite_vacuum ended after invoking vacuum.
C26_Witness ==
    /\ ops[1].pc = "done"
    /\ ops[1].tool = "sqlite_vacuum"
    /\ ops[1].invoked = <<"vacuum">>
    /\ ~ops[1].result.threw

(***************************************************************************)
(* Claims checked under SpecScript.                                        *)
(***************************************************************************)
\* The stretches a..b of a text that hold no semicolon, start and end with
\* a character that is not whitespace, and have nothing but whitespace
\* between them and the semicolon (or end of the text) on either side.
Segments(text) ==
    {ab \in (1..Len(text)) \X (1..Len(text)) :
        /\ ab[1] <= ab[2]
        /\ \A k \in ab[1]..ab[2] : text[k] # ";"
        /\ ~Whitespace(text[ab[1]]) /\ ~Whitespace(text[ab[2]])
        /\ \E lo \in 0..(ab[1] - 1) :
              /\ lo = 0 \/ text[lo] = ";"
              /\ \A k \in (lo + 1)..(ab[1] - 1) : Whitespace(text[k])
        /\ \E hi \in (ab[2] + 1)..(Len(text) + 1) :
              /\ hi = Len(text) + 1 \/ text[hi] = ";"
              /\ \A k \in (ab[2] + 1)..(hi - 1) : Whitespace(text[k])}

\* C27: a runScript that succeeded executed, in the order of the text,
\* exactly the trimmed non-empty stretches between the semicolons of its
\* text, and returned their number as statementsRun; and the local and the
\* remote client compute the same statements from the same text.
C27_LexicalSplit ==
    LET c == ops[1]
        segs == Segments(c.text) IN
    /\ SqliteClientStatements(c.text) = LibSqlClientStatements(c.text)
    /\ (c.pc = "done" /\ ~c.threw) =>
          /\ c.statementsRun = Cardinality(segs)
          /\ Len(c.executed) = Cardinality(segs)
          /\ \A i \in 1..Len(c.executed) :
                \E ab \in segs :
                    /\ c.executed[i] = SubSeq(c.text, ab[1], ab[2])
                    /\ Cardinality({xy \in segs : xy[1] < ab[1]}) = i - 1

\* C27 witness: a remote runScript succeeded on a text with a semicolon
\* inside a quoted literal and ran two statements.
C27_Witness ==
    /\ ops[1].pc = "done"
    /\ ~ops[1].threw
    /\ ops[1].impl = "remote"
    /\ ops[1].text = <<"'", ";", "'", " ">>
    /\ ops[1].statementsRun = 2

(***************************************************************************)
(* Claims checked under SpecHttp: the targets of the sessions.             *)
(***************************************************************************)
\* The target getConfig() would name if it were called now.
CurrentTarget == TargetOf(OptionsFromConfig(getConfig(env)))

\* C28: the target of an existing HTTP session is fixed when its server is
\* created; no later step (a POST with query parameters, the initialization
\* of another session, a rejected request, a close) changes the options or
\* the target of a server that exists.
C28_SessionTargetFixed ==
    [][\A s \in 1..Len(servers) :
          /\ s \in 1..Len(servers')
          /\ servers'[s].opts = servers[s].opts
          /\ TargetOf(servers'[s].opts) = TargetOf(servers[s].opts)
      ]_vars

\* C28 witness: a live session keeps a target other than the one the query
\* parameters of a later POST left in the environment, beside a second
\* session initialized after it.
C28_Witness ==
    /\ DOMAIN transports = {1, 2}
    /\ TargetOf(servers[1].opts) # CurrentTarget
    /\ TargetOf(servers[1].opts) # TargetOf(servers[2].opts)
    /\ last.method = "POST"
    /\ last.status = 400

(***************************************************************************)
(* Claims checked under SpecOrigin.                                        *)
(***************************************************************************)
\* This step created the server of a new session.
SessionCreated == Len(servers') = Len(servers) + 1

\* The target named by the startup environment overlaid with the query
\* parameters q of one request.
TargetFrom(startup, q) ==
    TargetOf(OptionsFromConfig(getConfig(ApplyQuery(startup, q))))

\* C29 (as claimed): the target of a new HTTP session depends only on the
\* startup configuration and the parameters of the session's own
\* initialization request; the query parameters of earlier requests, the
\* rejected ones included, do not influence it.
C29_TargetFromOwnRequest ==
    [][SessionCreated =>
          TargetOf(servers'[Len(servers')].opts)
              = TargetFrom(ops[1].startup, ops'[1].query)
      ]_vars

\* The part of C29 that holds: while no request has changed the
\* environment, the new session's target is the one its own parameters and
\* the startup environment name.
C29_FirstParametersDecide ==
    [][(SessionCreated /\ env = ops[1].startup) =>
          TargetOf(servers'[Len(servers')].opts)
              = TargetFrom(ops[1].startup, ops'[1].query)
      ]_vars

\* A session was just initialized by a request without parameters, and its
\* target is the one an earlier request's parameters named.
C29_InheritedTarget ==
    /\ Len(servers) = 1
    /\ last.method = "POST"
    /\ last.body = "initialize"
    /\ ops[1].query = NoQuery
    /\ TargetOf(servers[1].opts) # TargetFrom(ops[1].startup, NoQuery)

(***************************************************************************)
(* Claims checked under SpecHttp: the session mapping.                     *)
(* The transport made by the n-th initialization is transport n, and the   *)
(* identifier it generates for itself is n.                                *)
(***************************************************************************)
\* Every key maps to the transport whose own identifier is that key, and no
\* transport is mapped under two keys.
MappingConsistent ==
    /\ \A k \in DOMAIN transports :
          /\ transports[k] = k
          /\ k \in 1..Len(servers)
    /\ \A j, k \in DOMAIN transports : transports[j] = transports[k] => j = k

\* This step served a request that bore the identifier of a live session.
KnownSession ==
    /\ Served
    /\ last'.header.kind = "uuid"
    /\ last'.header.id \in DOMAIN transports

\* The request just served was handed to transport k: a tool call starts on
\* the server connected to k and on no other, a DELETE closes k and removes
\* its entry only, and nothing else is done to any session.
HandedTo(k) ==
    /\ last'.by = "transport"
    /\ last'.status = 0
    /\ \A c \in DOMAIN calls : calls'[c] # calls[c] =>
          /\ last'.method = "POST"
          /\ last'.body = "tools/call"
          /\ calls'[c].server = k
    /\ (last'.method = "POST" /\ last'.body = "tools/call") =>
          \E c \in DOMAIN calls : calls'[c] # calls[c]
    /\ IF last'.method = "DELETE"
       THEN /\ DOMAIN transports' = DOMAIN transports \ {k}
            /\ ~servers'[k].open
            /\ \A s \in (1..Len(servers)) \ {k} : servers'[s] = servers[s]
       ELSE /\ transports' = transports
            /\ servers' = servers

\* C30: in every reachable state of the HTTP session mapping each key maps
\* to the transport whose own session identifier is that key and no
\* transport appears under two keys; a POST, GET or DELETE that bears a
\* known identifier is handed to exactly the transport created by the
\* initialization that produced that identifier.
C30_SessionMappingConsistent ==
    /\ []MappingConsistent
    /\ [][KnownSession => HandedTo(last'.header.id)]_vars

\* C30 witness: with two live sessions, a tool call that bore the second
\* session's identifier has started on the second session's server.
C30_Witness ==
    /\ DOMAIN transports = {1, 2}
    /\ last.method = "POST"
    /\ last.body = "tools/call"
    /\ last.header = SessionId(2)
    /\ last.by = "transport"
    /\ \E c \in DOMAIN calls : calls[c].pc # "idle" /\ calls[c].server = 2

====
